---------------------------- MODULE Spec2Model ----------------------------
(***************************************************************************)
(* Model of neuralnetworks/1.3/vts/functional/GeneratedTestHarness.cpp:    *)
(* the Evaluator (EvaluatePreparedModel with a TestConfig), the scenario   *)
(* matrix runner (EvaluatePreparedModel with a TestKind), the coupling     *)
(* orchestrator (EvaluatePreparedCoupledModels) and Execute.               *)
(*                                                                         *)
(* gtest semantics: ASSERT_* records a fatal failure and returns from the  *)
(* function it is written in (only that function); EXPECT_* records a      *)
(* non-fatal failure and goes on; GTEST_SKIP() registers a skip and        *)
(* returns from the function it is written in.                             *)
(*                                                                         *)
(* Sequences are 1-based here: output 0 of the source is index 1.          *)
(***************************************************************************)
EXTENDS Integers, Sequences, FiniteSets, TLC

\* ----------------------------------------------------------------- bounds
\* Largest number of model outputs of a test model.
MaxOutputs == 2
\* Largest extent of the single dimension of output 0 (its byte size, the
\* operands being one byte per element).
MaxDim == 2
\* uint64_t narrowed to TimeBits bits: only the order of two times and the
\* all-ones sentinel matter to the code.
TimeBits == 4
\* Largest byte length of a request output, and the most applications of
\* makeOutputInsufficientSize to one request, where the helper is taken on
\* its own.
MaxLength == 4
MaxApplications == 2
\* The largest number of operands of a test model with constants.
MaxOperands == 3

\* ------------------------------------------------------------ enumerations
\* enum class Executor
Executor == {"ASYNC", "SYNC", "BURST"}
\* enum class OutputType
OutputType == {"FULLY_SPECIFIED", "UNSPECIFIED", "INSUFFICIENT"}
\* V1_2::MeasureTiming
MeasureTiming == {"NO", "YES"}
\* V1_0::ErrorStatus
ErrorStatus ==
    {"NONE", "DEVICE_UNAVAILABLE", "GENERAL_FAILURE", "OUTPUT_INSUFFICIENT_SIZE",
     "INVALID_ARGUMENT"}
\* enum class TestKind
TestKind == {"GENERAL", "DYNAMIC_SHAPE", "QUANTIZATION_COUPLING"}

\* UINT64_MAX, the "unknown" timing sentinel: the largest value of the type.
UINT64_MAX == 2 ^ TimeBits - 1
\* The times a backend reports: two known values and the sentinel.
Times == {1, 2, UINT64_MAX}
\* V1_2::Timing: every way two times can be known or unknown, equal or
\* ordered (the value 2 is only used beside a 1).
Timing ==
    {t \in [timeOnDevice : Times, timeInDriver : Times] :
        /\ t.timeOnDevice = 2 => t.timeInDriver = 1
        /\ t.timeInDriver = 2 => t.timeOnDevice = 1}

\* struct TestConfig
TestConfig(executor, measureTiming, outputType, reportSkipping) ==
    [executor |-> executor, measureTiming |-> measureTiming,
     outputType |-> outputType, reportSkipping |-> reportSkipping]

TestConfigs ==
    {TestConfig(e, m, o, r) : e \in Executor, m \in MeasureTiming,
                              o \in OutputType, r \in BOOLEAN}

\* ------------------------------------------------------------ test models
\* Every test operand is a one-byte-per-element quantized tensor, so the
\* byte size of its data is the number of its elements.
RECURSIVE NumberOfElements(_)
NumberOfElements(dims) ==
    IF dims = <<>> THEN 1 ELSE Head(dims) * NumberOfElements(Tail(dims))

TestOperand(lifetime, dims) ==
    [type |-> "TENSOR_QUANT8_ASYMM", zeroPoint |-> 128, lifetime |-> lifetime,
     dimensions |-> dims, size |-> NumberOfElements(dims)]

\* A test model with n outputs: operand 1 is the input, operands 2..n+1 the
\* outputs; output 0 has dimensions <<k>> (k bytes), output j > 0 has
\* dimensions <<1, j + 1>>.
TestModel(n, k) ==
    [operands |->
        [i \in 1..(n + 1) |->
            IF i = 1 THEN TestOperand("SUBGRAPH_INPUT", <<2>>)
            ELSE IF i = 2 THEN TestOperand("SUBGRAPH_OUTPUT", <<k>>)
            ELSE TestOperand("SUBGRAPH_OUTPUT", <<1, i - 1>>)],
     operations |->
        <<[type |-> "OPERATION", inputs |-> <<1>>,
           outputs |-> [j \in 1..n |-> j + 1]]>>,
     inputIndexes |-> <<1>>,
     outputIndexes |-> [j \in 1..n |-> j + 1],
     isRelaxed |-> FALSE]

\* The test models: one output of every size, and every number of outputs.
TestModels ==
    {TestModel(1, k) : k \in 1..MaxDim}
    \cup {TestModel(n, MaxDim) : n \in 2..MaxOutputs}

\* TestModel::hasQuant8CoupledOperands, as the filter of the coupling tests
\* uses it.
hasQuant8CoupledOperands(tm) ==
    \E i \in 1..Len(tm.operands) : tm.operands[i].type = "TENSOR_QUANT8_ASYMM"

\* convertQuant8AsymmOperandsToSigned: the same model with every unsigned
\* quantized operand retyped as signed and its zero point moved by 128.
convertQuant8AsymmOperandsToSigned(tm) ==
    [tm EXCEPT !.operands =
        [i \in 1..Len(tm.operands) |->
            IF tm.operands[i].type = "TENSOR_QUANT8_ASYMM"
            THEN [tm.operands[i] EXCEPT !.type = "TENSOR_QUANT8_ASYMM_SIGNED",
                                        !.zeroPoint = @ - 128]
            ELSE tm.operands[i]]]

OutputDimensions(tm, i) == tm.operands[tm.outputIndexes[i]].dimensions

\* ---------------------------------------------------------- model, request
\* TestBuffer::kAlignment and TestBuffer::alignedSize: the size of the data
\* rounded up to the alignment boundary.
kAlignment == 4

alignedSize(size) == ((size + kAlignment - 1) \div kAlignment) * kAlignment

\* The value of the cursor of one storage class (constCopySize for
\* CONSTANT_COPY, constRefSize for CONSTANT_REFERENCE) after the operand
\* loop has handled operands 1..i.
RECURSIVE constSizeAfter(_, _, _)
constSizeAfter(tm, lifetime, i) ==
    IF i = 0 THEN 0
    ELSE constSizeAfter(tm, lifetime, i - 1)
         + (IF tm.operands[i].lifetime = lifetime
            THEN alignedSize(tm.operands[i].size) ELSE 0)

constCopySize(tm) == constSizeAfter(tm, "CONSTANT_COPY", Len(tm.operands))

constRefSize(tm) == constSizeAfter(tm, "CONSTANT_REFERENCE", Len(tm.operands))

\* A variant of DataLocation with one cursor for both storage classes.
DataLocationSharedCursor(tm, i) ==
    IF tm.operands[i].lifetime \in {"CONSTANT_COPY", "CONSTANT_REFERENCE"}
    THEN [poolIndex |-> 0,
          offset |-> constSizeAfter(tm, "CONSTANT_COPY", i - 1)
                     + constSizeAfter(tm, "CONSTANT_REFERENCE", i - 1),
          length |-> tm.operands[i].size]
    ELSE [poolIndex |-> 0, offset |-> 0, length |-> 0]

\* Lines 109-120: the location of operand i. A constant starts at the
\* current value of the cursor of its class and has the length of its
\* data (both far below 2^32 here, so static_cast<uint32_t> keeps them);
\* every other operand keeps DataLocation loc = {}.
DataLocation(tm, i) ==
    IF tm.operands[i].lifetime \in {"CONSTANT_COPY", "CONSTANT_REFERENCE"}
    THEN [poolIndex |-> 0,
          offset |-> constSizeAfter(tm, tm.operands[i].lifetime, i - 1),
          length |-> tm.operands[i].size]
    ELSE [poolIndex |-> 0, offset |-> 0, length |-> 0]

\* std::copy(begin, end, buffer + offset). A byte of the data of operand i
\* is written as i; a byte never written is 0.
CopyData(buffer, offset, length, i) ==
    [b \in 1..Len(buffer) |->
        IF offset < b /\ b <= offset + length THEN i ELSE buffer[b]]

\* Lines 148-156 and 171-178: a buffer of the given size after the data of
\* the operands 1..i of one storage class has been copied to their offsets.
RECURSIVE ConstantBytes(_, _, _, _, _)
ConstantBytes(tm, operands, lifetime, size, i) ==
    IF i = 0 THEN [b \in 1..size |-> 0]
    ELSE LET buffer == ConstantBytes(tm, operands, lifetime, size, i - 1)
         IN  IF tm.operands[i].lifetime = lifetime
             THEN CopyData(buffer, operands[i].location.offset,
                           tm.operands[i].size, i)
             ELSE buffer

\* createModel, when the shared memory (if any) is allocated and mapped:
\* the operands in the wire form with their locations, the operations and
\* the index lists copied, the constant copies in operandValues, the
\* constant references in one pool of constRefSize bytes.
createModel(tm) ==
    LET operands ==
            [i \in 1..Len(tm.operands) |->
                [type |-> tm.operands[i].type,
                 dimensions |-> tm.operands[i].dimensions,
                 lifetime |-> tm.operands[i].lifetime,
                 location |-> DataLocation(tm, i)]]
    IN  [operands |-> operands,
         operations |->
            [k \in 1..Len(tm.operations) |->
                [type |-> tm.operations[k].type,
                 inputs |-> tm.operations[k].inputs,
                 outputs |-> tm.operations[k].outputs]],
         inputIndexes |-> tm.inputIndexes,
         outputIndexes |-> tm.outputIndexes,
         operandValues |->
            ConstantBytes(tm, operands, "CONSTANT_COPY", constCopySize(tm),
                          Len(tm.operands)),
         pools |->
            IF constRefSize(tm) > 0
            THEN <<ConstantBytes(tm, operands, "CONSTANT_REFERENCE",
                                 constRefSize(tm), Len(tm.operands))>>
            ELSE <<>>,
         relaxComputationFloat32toFloat16 |-> tm.isRelaxed]

NoModel ==
    [operands |-> <<>>, operations |-> <<>>, inputIndexes |-> <<>>,
     outputIndexes |-> <<>>, operandValues |-> <<>>, pools |-> <<>>,
     relaxComputationFloat32toFloat16 |-> FALSE]

\* What nn::allocateSharedMemory and mapMemory can give for a request of
\* size bytes: a memory of that size or an empty one, mapped or not, with
\* a pointer or without.
SharedMemories(size) ==
    [size : {0, size}, mapped : BOOLEAN, pointer : BOOLEAN]

\* A variant of createModelAborts that tests the size of the memory only.
createModelAbortsOnEmptyOnly(tm, memory) ==
    /\ constRefSize(tm) > 0
    /\ memory.size = 0

\* Lines 160-169: CHECK_NE(pools[0].size(), 0u), CHECK(mappedMemory.get() !=
\* nullptr), CHECK(mappedPtr != nullptr); a failed CHECK aborts the process.
createModelAborts(tm, memory) ==
    /\ constRefSize(tm) > 0
    /\ (memory.size = 0 \/ ~memory.mapped \/ ~memory.pointer)

IsOutputIndex(m, i) == \E j \in 1..Len(m.outputIndexes) : m.outputIndexes[j] = i

\* A variant of makeOutputDimensionsUnspecified that blanks the dimensions
\* of every operand.
makeEveryDimensionUnspecified(m) ==
    [m EXCEPT !.operands =
        [i \in 1..Len(m.operands) |->
            [m.operands[i] EXCEPT !.dimensions =
                [d \in 1..Len(m.operands[i].dimensions) |-> 0]]]]

\* makeOutputDimensionsUnspecified: std::fill(dims.begin(), dims.end(), 0)
\* for every operand listed in outputIndexes.
makeOutputDimensionsUnspecified(m) ==
    [m EXCEPT !.operands =
        [i \in 1..Len(m.operands) |->
            IF IsOutputIndex(m, i)
            THEN [m.operands[i] EXCEPT !.dimensions =
                      [d \in 1..Len(m.operands[i].dimensions) |-> 0]]
            ELSE m.operands[i]]]

RECURSIVE SumOf(_)
SumOf(seq) == IF seq = <<>> THEN 0 ELSE Head(seq) + SumOf(Tail(seq))

\* createRequest: one location per input and per output, its length the byte
\* size of the operand's data, and two pools, one holding the inputs and one
\* for the outputs, each as large as its locations together.
createRequest(tm) ==
    LET inputs == [j \in 1..Len(tm.inputIndexes) |->
                      tm.operands[tm.inputIndexes[j]].size]
        outputs == [j \in 1..Len(tm.outputIndexes) |->
                       tm.operands[tm.outputIndexes[j]].size]
    IN  [built |-> TRUE, inputs |-> inputs, outputs |-> outputs,
         pools |-> <<SumOf(inputs), SumOf(outputs)>>]

NoRequest == [built |-> FALSE, inputs |-> <<>>, outputs |-> <<>>, pools |-> <<>>]

\* Variant of isOutputSizeGreaterThanOne with the bound off by one
\* (byteSize > 0u): C2 fails with it.
isOutputSizeGreaterThanZero(tm, index) ==
    tm.operands[tm.outputIndexes[index]].size > 0

\* isOutputSizeGreaterThanOne(testModel, index)
isOutputSizeGreaterThanOne(tm, index) ==
    tm.operands[tm.outputIndexes[index]].size > 1

\* A variant of ShrinkPreconditionHolds with the bound off by one
\* (ASSERT_GT(length, 0u)).
ShrinkPreconditionNonZero(request, outputIndex) == request.outputs[outputIndex] > 0

\* A variant of makeOutputInsufficientSize that takes a byte off every
\* output that has one to spare.
makeEveryOutputInsufficientSize(outputIndex, request) ==
    [request EXCEPT !.outputs =
        [j \in 1..Len(request.outputs) |->
            IF request.outputs[j] > 1 THEN request.outputs[j] - 1
            ELSE request.outputs[j]]]

\* makeOutputInsufficientSize(outputIndex, request): ASSERT_GT(length, 1u)
\* returns from the helper alone, leaving the request as it was.
ShrinkPreconditionHolds(request, outputIndex) == request.outputs[outputIndex] > 1

makeOutputInsufficientSize(outputIndex, request) ==
    IF ShrinkPreconditionHolds(request, outputIndex)
    THEN [request EXCEPT !.outputs[outputIndex] = @ - 1]
    ELSE request

\* ---------------------------------------------------------------- backend
\* What a backend may put at place i of the output-shape list it returns for
\* a test model with n outputs: the declared dimensions of output i or the
\* blanked (all-zero) ones, sufficient or not.
ShapeEntries(tm, i) ==
    {[dimensions |-> d, isSufficient |-> s] :
        d \in {OutputDimensions(tm, i),
               [x \in 1..Len(OutputDimensions(tm, i)) |-> 0]},
        s \in BOOLEAN}

RECURSIVE ShapeListsOfLen(_, _)
ShapeListsOfLen(tm, len) ==
    IF len = 0 THEN {<<>>}
    ELSE {Append(l, e) : l \in ShapeListsOfLen(tm, len - 1), e \in ShapeEntries(tm, len)}

\* The list with one entry too many: a right answer for every output and
\* an extra entry after them.
LongShapeList(tm) ==
    [i \in 1..(Len(tm.outputIndexes) + 1) |->
        IF i <= Len(tm.outputIndexes)
        THEN [dimensions |-> OutputDimensions(tm, i), isSufficient |-> TRUE]
        ELSE [dimensions |-> <<1>>, isSufficient |-> TRUE]]

\* The output-shape lists a backend may return: the empty list, every list
\* of one entry per output, the right answer cut short by one entry, and one
\* that is too long.
ShapeLists(tm) ==
    {<<>>}
    \cup ShapeListsOfLen(tm, Len(tm.outputIndexes))
    \cup {SubSeq(LongShapeList(tm), 1, Len(tm.outputIndexes) - 1)}
    \cup {LongShapeList(tm)}

\* The ANEURALNETWORKS_* result codes a burst computation ends with.
ResultCodes ==
    {"NO_ERROR", "BAD_DATA", "OP_FAILED", "OUTPUT_INSUFFICIENT_SIZE", "UNAVAILABLE_DEVICE"}

\* nn::convertResultCodeToErrorStatus
convertResultCodeToErrorStatus(n) ==
    CASE n = "NO_ERROR" -> "NONE"
      [] n = "BAD_DATA" -> "INVALID_ARGUMENT"
      [] n = "OUTPUT_INSUFFICIENT_SIZE" -> "OUTPUT_INSUFFICIENT_SIZE"
      [] n = "UNAVAILABLE_DEVICE" -> "DEVICE_UNAVAILABLE"
      [] OTHER -> "GENERAL_FAILURE"

\* The completion slot of one asynchronous execution (ExecutionCallback).
NoCallback ==
    [created |-> FALSE, notified |-> FALSE, status |-> "UNSET", outputShapes |-> <<>>,
     timing |-> [timeOnDevice |-> 0, timeInDriver |-> 0]]

NoTiming == [timeOnDevice |-> 0, timeInDriver |-> 0]

\* No backend answer fixed beforehand: the backend answers each call as it
\* likes.
NoAnswer ==
    [status |-> "UNSET", outputShapes |-> <<>>, timing |-> NoTiming,
     outputsMatch |-> FALSE]

\* nn::convertErrorStatusToResultCode, by which the burst controller turns
\* the status of the backend into the result code of compute().
convertErrorStatusToResultCode(status) ==
    CASE status = "NONE" -> "NO_ERROR"
      [] status = "DEVICE_UNAVAILABLE" -> "UNAVAILABLE_DEVICE"
      [] status = "GENERAL_FAILURE" -> "OP_FAILED"
      [] status = "OUTPUT_INSUFFICIENT_SIZE" -> "OUTPUT_INSUFFICIENT_SIZE"
      [] status = "INVALID_ARGUMENT" -> "BAD_DATA"

\* A recorded gtest failure: the assertion's tag and, for the per-output
\* checks, the output it is about (0 otherwise).
Fail(tag) == <<tag, 0>>
FailAt(tag, i) == <<tag, i>>


\* ------------------------------------------------------------------ state
VARIABLES
    \* Execute: its parameters, locals and position
    testKind, testModel, model, signedQuantizedModel,
    preparedModel, preparedCoupledModel, pc, cfgIdx,
    baseSkipped, coupledSkipped,
    \* ledgers: the shared memories createModel asked for, the models
    \* submitted for preparation and the Evaluator invocations made so far,
    \* in order
    allocations, prepareCalls, invoked,
    \* the protocol comparison: the one answer of the backend to the request,
    \* and what each executor's invocation ended with
    answer, observed,
    \* the gtest result of the running test
    testFailed, testSkipped,
    \* one Evaluator invocation: its parameters, locals and position
    epc, evalModel, testConfig, hasSkipped, skipped, request, callback,
    transport, executionStatus, outputShapes, timing,
    driverCalls, checks, failures, fatal, skipRegistered, exit

execVars ==
    <<testKind, testModel, model, signedQuantizedModel, preparedModel,
      preparedCoupledModel, pc, cfgIdx, baseSkipped, coupledSkipped,
      allocations, prepareCalls, invoked, answer, observed>>

\* What no step after createModel writes.
inputVars == <<testKind, testModel, allocations, answer, observed>>

resultVars == <<testFailed, testSkipped>>

paramVars == <<evalModel, testConfig, hasSkipped>>

outcomeVars == <<transport, executionStatus, outputShapes, timing>>

evalVars ==
    <<epc, evalModel, testConfig, hasSkipped, skipped, request, callback,
      transport, executionStatus, outputShapes, timing,
      driverCalls, checks, failures, fatal, skipRegistered, exit>>

vars == <<execVars, resultVars, evalVars>>

\* ------------------------------------------------- the Evaluator's checks
\* A variant of SkipCase that does not look at the policy.
SkipCaseAnyPolicy(cfg, status) ==
    status = "GENERAL_FAILURE"

\* Variant of SkipCase that only knows the UNSPECIFIED policy: C1 fails
\* with it.
SkipCaseUnspecifiedOnly(cfg, status) ==
    cfg.outputType = "UNSPECIFIED" /\ status = "GENERAL_FAILURE"

\* Lines 310-311: the status that is read as "the backend does not support
\* this shape-handling mode".
SkipCase(cfg, status) ==
    cfg.outputType # "FULLY_SPECIFIED" /\ status = "GENERAL_FAILURE"

\* Variant of TimingFailures with EXPECT_LT in place of EXPECT_LE: C4 fails
\* with it.
TimingFailuresStrict(cfg, t) ==
    IF cfg.measureTiming = "NO"
    THEN (IF t.timeOnDevice # UINT64_MAX THEN {Fail("timeOnDevice")} ELSE {})
         \cup (IF t.timeInDriver # UINT64_MAX THEN {Fail("timeInDriver")} ELSE {})
    ELSE IF /\ t.timeOnDevice # UINT64_MAX
            /\ t.timeInDriver # UINT64_MAX
            /\ ~(t.timeOnDevice < t.timeInDriver)
         THEN {Fail("timingOrder")}
         ELSE {}

\* Lines 325-332: the EXPECT_* on the reported timing.
TimingFailures(cfg, t) ==
    IF cfg.measureTiming = "NO"
    THEN (IF t.timeOnDevice # UINT64_MAX THEN {Fail("timeOnDevice")} ELSE {})
         \cup (IF t.timeInDriver # UINT64_MAX THEN {Fail("timeInDriver")} ELSE {})
    ELSE IF /\ t.timeOnDevice # UINT64_MAX
            /\ t.timeInDriver # UINT64_MAX
            /\ ~(t.timeOnDevice <= t.timeInDriver)
         THEN {Fail("timingOrder")}
         ELSE {}

\* Lines 335-341: the ASSERT_* of the FULLY_SPECIFIED case, in order, each
\* with whether it holds.
FullySpecifiedAsserts(tm, status, shapes) ==
    << <<"status", status = "NONE">>,
       <<"shapeCount", Len(shapes) = 0 \/ Len(shapes) = Len(tm.outputIndexes)>> >>

\* Variant of UnspecifiedAsserts that takes over the empty-list relaxation
\* of the FULLY_SPECIFIED case: C5 fails with it.
UnspecifiedAssertsAllowEmpty(tm, status, shapes) ==
    << <<"status", status = "NONE">>,
       <<"shapeCount", Len(shapes) = 0 \/ Len(shapes) = Len(tm.outputIndexes)>> >>

\* Lines 342-347: the ASSERT_* of the UNSPECIFIED case.
UnspecifiedAsserts(tm, status, shapes) ==
    << <<"status", status = "NONE">>,
       <<"shapeCount", Len(shapes) = Len(tm.outputIndexes)>> >>

\* Variant of InsufficientAsserts without ASSERT_FALSE(isSufficient): C3
\* fails with it.
InsufficientAssertsNoFlag(tm, status, shapes) ==
    << <<"status", status = "OUTPUT_INSUFFICIENT_SIZE">>,
       <<"shapeCount", Len(shapes) = Len(tm.outputIndexes)>> >>

\* Lines 348-352: the ASSERT_* of the INSUFFICIENT case.
InsufficientAsserts(tm, status, shapes) ==
    << <<"status", status = "OUTPUT_INSUFFICIENT_SIZE">>,
       <<"shapeCount", Len(shapes) = Len(tm.outputIndexes)>>,
       <<"out0Insufficient", Len(shapes) >= 1 /\ ~shapes[1].isSufficient>> >>

\* Lines 334-353: switch (testConfig.outputType).
PolicyAsserts(cfg, tm, status, shapes) ==
    CASE cfg.outputType = "FULLY_SPECIFIED" -> FullySpecifiedAsserts(tm, status, shapes)
      [] cfg.outputType = "UNSPECIFIED" -> UnspecifiedAsserts(tm, status, shapes)
      [] cfg.outputType = "INSUFFICIENT" -> InsufficientAsserts(tm, status, shapes)

\* The place of the first assertion of the list that fails, 0 when all hold:
\* an ASSERT_* that fails returns, so the ones after it are not evaluated.
FirstFailing(asserts) ==
    IF \E i \in 1..Len(asserts) : ~asserts[i][2]
    THEN CHOOSE i \in 1..Len(asserts) :
             ~asserts[i][2] /\ \A j \in 1..(i - 1) : asserts[j][2]
    ELSE 0

\* The tags of the assertions that are evaluated, in order.
EvaluatedTags(asserts) ==
    LET f == FirstFailing(asserts)
        last == IF f = 0 THEN Len(asserts) ELSE f
    IN  [i \in 1..last |-> asserts[i][1]]

\* Variant of ShapeFailures that expects the blanked (all-zero) dimensions
\* handed to the backend instead of the test model's own: C6 fails with it.
ShapeFailuresAgainstBlanked(tm, shapes) ==
    UNION {(IF ~shapes[i].isSufficient THEN {FailAt("isSufficient", i)} ELSE {})
           \cup (IF [x \in 1..Len(OutputDimensions(tm, i)) |-> 0] # shapes[i].dimensions
                 THEN {FailAt("dimensions", i)} ELSE {}) : i \in 1..Len(shapes)}

\* Lines 355-361: the EXPECT_* on every returned output shape, against the
\* dimensions the test model declares for that output.
ShapeFailures(tm, shapes) ==
    UNION {(IF ~shapes[i].isSufficient THEN {FailAt("isSufficient", i)} ELSE {})
           \cup (IF OutputDimensions(tm, i) # shapes[i].dimensions
                 THEN {FailAt("dimensions", i)} ELSE {}) : i \in 1..Len(shapes)}

\* A variant of Validate that leaves before the comparator once a timing or
\* output-shape mismatch is recorded.
ValidateStopOnMismatch(cfg, tm, ptr, status, shapes, t, cmp) ==
    IF SkipCase(cfg, status)
    THEN [checks |-> <<>>, failures |-> {}, fatal |-> "none",
          skipRegistered |-> cfg.reportSkipping, setSkipped |-> ptr,
          exit |-> IF cfg.reportSkipping THEN "GTEST_SKIP" ELSE "return316"]
    ELSE LET asserts == PolicyAsserts(cfg, tm, status, shapes)
             f == FirstFailing(asserts)
             tf == TimingFailures(cfg, t)
             tags == <<"timing">> \o EvaluatedTags(asserts)
         IN  IF f # 0
             THEN [checks |-> tags, failures |-> tf \cup {Fail(asserts[f][1])},
                   fatal |-> asserts[f][1], skipRegistered |-> FALSE,
                   setSkipped |-> FALSE, exit |-> "assert"]
             ELSE IF cfg.outputType = "INSUFFICIENT"
             THEN [checks |-> tags, failures |-> tf, fatal |-> "none",
                   skipRegistered |-> FALSE, setSkipped |-> FALSE,
                   exit |-> "return352"]
             ELSE IF tf \cup ShapeFailures(tm, shapes) # {}
             THEN [checks |-> tags \o <<"outputShapes">>,
                   failures |-> tf \cup ShapeFailures(tm, shapes),
                   fatal |-> "none", skipRegistered |-> FALSE,
                   setSkipped |-> FALSE, exit |-> "end"]
             ELSE [checks |-> tags \o <<"outputShapes", "getOutputBuffers", "checkResults">>,
                   failures |-> IF cmp THEN {} ELSE {Fail("checkResults")},
                   fatal |-> "none", skipRegistered |-> FALSE,
                   setSkipped |-> FALSE, exit |-> "end"]

\* Lines 310-368: everything EvaluatePreparedModel does once the driver has
\* returned; cmp is the verdict of the numeric comparator, should it be
\* reached. The result names the checks made (in order), the failures
\* recorded, the fatal one, whether a skip was registered, the value stored
\* through `skipped`, and the return taken.
Validate(cfg, tm, ptr, status, shapes, t, cmp) ==
    IF SkipCase(cfg, status)
    THEN [checks |-> <<>>, failures |-> {}, fatal |-> "none",
          skipRegistered |-> cfg.reportSkipping, setSkipped |-> ptr,
          exit |-> IF cfg.reportSkipping THEN "GTEST_SKIP" ELSE "return316"]
    ELSE LET asserts == PolicyAsserts(cfg, tm, status, shapes)
             f == FirstFailing(asserts)
             tf == TimingFailures(cfg, t)
             tags == <<"timing">> \o EvaluatedTags(asserts)
         IN  IF f # 0
             THEN [checks |-> tags, failures |-> tf \cup {Fail(asserts[f][1])},
                   fatal |-> asserts[f][1], skipRegistered |-> FALSE,
                   setSkipped |-> FALSE, exit |-> "assert"]
             ELSE IF cfg.outputType = "INSUFFICIENT"
             THEN [checks |-> tags, failures |-> tf, fatal |-> "none",
                   skipRegistered |-> FALSE, setSkipped |-> FALSE,
                   exit |-> "return352"]
             ELSE [checks |-> tags \o <<"outputShapes", "getOutputBuffers", "checkResults">>,
                   failures |-> tf \cup ShapeFailures(tm, shapes)
                                   \cup (IF cmp THEN {} ELSE {Fail("checkResults")}),
                   fatal |-> "none", skipRegistered |-> FALSE,
                   setSkipped |-> FALSE, exit |-> "end"]

\* ------------------------------------------------- the Evaluator's actions
\* The caller's side of a call of EvaluatePreparedModel(preparedModel,
\* testModel, testConfig, skipped): fresh locals.
CallEvaluator(tm, cfg, ptr) ==
    /\ epc' = "entry"
    /\ evalModel' = tm
    /\ testConfig' = cfg
    /\ hasSkipped' = ptr
    /\ skipped' = FALSE
    /\ request' = NoRequest
    /\ callback' = NoCallback
    /\ transport' = "none"
    /\ executionStatus' = "UNSET"
    /\ outputShapes' = <<>>
    /\ timing' = NoTiming
    /\ driverCalls' = 0
    /\ checks' = <<>>
    /\ failures' = {}
    /\ fatal' = "none"
    /\ skipRegistered' = FALSE
    /\ exit' = "none"

\* Lines 239-251: reset *skipped, leave when the undersized probe cannot be
\* built, else build the request and shrink output 0 under INSUFFICIENT.
EvalEntry ==
    /\ epc = "entry"
    /\ skipped' = (IF hasSkipped THEN FALSE ELSE skipped)
    /\ IF testConfig.outputType = "INSUFFICIENT" /\ ~isOutputSizeGreaterThanOne(evalModel, 1)
       THEN /\ epc' = "done"
            /\ exit' = "return245"
            /\ UNCHANGED <<request, failures, testFailed>>
       ELSE LET built == createRequest(evalModel)
                shrink == testConfig.outputType = "INSUFFICIENT"
                bad == shrink /\ ~ShrinkPreconditionHolds(built, 1)
            IN  /\ request' = (IF shrink THEN makeOutputInsufficientSize(1, built) ELSE built)
                /\ failures' = (IF bad THEN failures \cup {Fail("shrinkPrecondition")} ELSE failures)
                /\ testFailed' = (testFailed \/ bad)
                /\ epc' = "built"
                /\ UNCHANGED exit
    /\ UNCHANGED <<execVars, testSkipped, paramVars, callback, outcomeVars,
                   driverCalls, checks, fatal, skipRegistered>>

\* Line 261: sp<ExecutionCallback> executionCallback = new ExecutionCallback():
\* an object of its own for this execution, not yet notified.
NewExecutionCallback == [NoCallback EXCEPT !.created = TRUE]

\* Lines 261-263: the callback object is made and execute_1_3 is called with
\* it; from here on the backend holds the object and may notify it, before
\* or after the call returns.
AsyncSubmit ==
    /\ epc = "built"
    /\ testConfig.executor = "ASYNC"
    /\ callback' = NewExecutionCallback
    /\ driverCalls' = driverCalls + 1
    /\ epc' = "launching"
    /\ UNCHANGED <<execVars, resultVars, paramVars, skipped, request,
                   outcomeVars, checks, failures, fatal, skipRegistered, exit>>

\* A variant of AsyncLaunchWith that treats the launch status like the
\* transport: it returns without waiting when the status is not NONE.
AsyncLaunchWithStatusAsserted(isOk, executionLaunchStatus) ==
    /\ epc = "launching"
    /\ testConfig.executor = "ASYNC"
    /\ transport' = (IF isOk THEN "ok" ELSE "fault")
    /\ IF ~isOk \/ executionLaunchStatus # "NONE"
       THEN /\ checks' = checks \o <<"launchIsOk">>
            /\ failures' = failures \cup {Fail("launchIsOk")}
            /\ fatal' = "launchIsOk"
            /\ testFailed' = TRUE
            /\ epc' = "done"
            /\ exit' = "assert"
       ELSE /\ checks' = checks \o <<"launchIsOk", "launchStatus">>
            /\ epc' = "waiting"
            /\ UNCHANGED <<failures, testFailed, fatal, exit>>
    /\ UNCHANGED <<execVars, testSkipped, paramVars, skipped, request, callback,
                   executionStatus, outputShapes, timing, driverCalls,
                   skipRegistered>>

\* Lines 262-265: execute_1_3 returns; the launch's transport must be OK
\* (ASSERT) and its status NONE (EXPECT).
AsyncLaunchWith(isOk, executionLaunchStatus) ==
    /\ epc = "launching"
    /\ testConfig.executor = "ASYNC"
    /\ transport' = (IF isOk THEN "ok" ELSE "fault")
    /\ IF ~isOk
       THEN /\ checks' = checks \o <<"launchIsOk">>
            /\ failures' = failures \cup {Fail("launchIsOk")}
            /\ fatal' = "launchIsOk"
            /\ testFailed' = TRUE
            /\ epc' = "done"
            /\ exit' = "assert"
       ELSE /\ checks' = checks \o <<"launchIsOk", "launchStatus">>
            /\ failures' = (IF executionLaunchStatus # "NONE"
                            THEN failures \cup {Fail("launchStatus")}
                            ELSE failures)
            /\ testFailed' = (testFailed \/ executionLaunchStatus # "NONE")
            /\ epc' = "waiting"
            /\ UNCHANGED <<fatal, exit>>
    /\ UNCHANGED <<execVars, testSkipped, paramVars, skipped, request, callback,
                   executionStatus, outputShapes, timing, driverCalls,
                   skipRegistered>>

AsyncLaunch ==
    /\ epc = "launching"
    /\ \E isOk \in BOOLEAN, executionLaunchStatus \in ErrorStatus :
        AsyncLaunchWith(isOk, executionLaunchStatus)

\* The backend's completion signal: notify_1_3(status, outputShapes, timing)
\* on the callback object of this execution.
AsyncNotifyWith(status, shapes, t) ==
    /\ epc \in {"launching", "waiting"}
    /\ callback.created /\ ~callback.notified
    /\ callback' = [created |-> TRUE, notified |-> TRUE, status |-> status,
                    outputShapes |-> shapes, timing |-> t]
    /\ UNCHANGED <<execVars, resultVars, epc, paramVars, skipped, request,
                   outcomeVars, driverCalls, checks, failures, fatal,
                   skipRegistered, exit>>

AsyncNotify ==
    /\ epc \in {"launching", "waiting"}
    /\ \E status \in ErrorStatus, shapes \in ShapeLists(evalModel), t \in Timing :
        AsyncNotifyWith(status, shapes, t)

\* A variant of AsyncWait that reads the results without waiting for the
\* completion signal (getStatus() before wait()).
AsyncWaitUnordered ==
    /\ epc = "waiting"
    /\ executionStatus' = callback.status
    /\ outputShapes' = callback.outputShapes
    /\ timing' = callback.timing
    /\ epc' = "executed"
    /\ UNCHANGED <<execVars, resultVars, paramVars, skipped, request, callback,
                   transport, driverCalls, checks, failures, fatal,
                   skipRegistered, exit>>

\* Lines 267-271: wait() returns once notified; the results are read from
\* the callback object.
AsyncWait ==
    /\ epc = "waiting"
    /\ callback.notified
    /\ executionStatus' = callback.status
    /\ outputShapes' = callback.outputShapes
    /\ timing' = callback.timing
    /\ epc' = "executed"
    /\ UNCHANGED <<execVars, resultVars, paramVars, skipped, request, callback,
                   transport, driverCalls, checks, failures, fatal,
                   skipRegistered, exit>>

\* A variant of ExecutePreparedModelSync without the transport test.
ExecutePreparedModelSyncUnchecked(isOk, error) == error

\* A variant of ExecutePreparedModelSync with the transport test inverted.
ExecutePreparedModelSyncInverted(isOk, error) ==
    IF isOk THEN "GENERAL_FAILURE" ELSE error

\* Lines 213-230: the status ExecutePreparedModel (blocking) returns: the
\* backend's, or GENERAL_FAILURE when the transport failed.
ExecutePreparedModelSync(isOk, error) ==
    IF ~isOk THEN "GENERAL_FAILURE" ELSE error

\* A variant of SyncExecuteWith in which a failed transport fails
\* ASSERT_TRUE(executionReturnStatus.isOk()) and ends the invocation there.
SyncExecuteWithReturnAsserted(isOk, error, shapes, t) ==
    /\ epc = "built"
    /\ testConfig.executor = "SYNC"
    /\ transport' = (IF isOk THEN "ok" ELSE "fault")
    /\ outputShapes' = shapes
    /\ timing' = t
    /\ driverCalls' = driverCalls + 1
    /\ checks' = checks \o <<"returnIsOk">>
    /\ callback' = [created |-> TRUE, notified |-> TRUE, status |-> error,
                    outputShapes |-> shapes, timing |-> t]
    /\ IF isOk
       THEN /\ executionStatus' = error
            /\ epc' = "executed"
            /\ UNCHANGED <<failures, fatal, exit, testFailed>>
       ELSE /\ executionStatus' = "GENERAL_FAILURE"
            /\ failures' = failures \cup {Fail("returnIsOk")}
            /\ fatal' = "returnIsOk"
            /\ testFailed' = TRUE
            /\ exit' = "assert"
            /\ epc' = "done"
    /\ UNCHANGED <<execVars, testSkipped, paramVars, skipped, request,
                   skipRegistered>>

\* Lines 275-285: executeSynchronously_1_3. `callback` is the result
\* callback of lines 220-225 with what the backend passed to it (error,
\* shapes, time), which it stores in result, *outputShapes and *timing.
\* With a failed transport the
\* shapes and the timing are whatever the locals hold (written by the
\* callback or not at all: `Timing timing;` is uninitialized).
SyncExecuteWith(isOk, error, shapes, t) ==
    /\ epc = "built"
    /\ testConfig.executor = "SYNC"
    /\ transport' = (IF isOk THEN "ok" ELSE "fault")
    /\ executionStatus' = ExecutePreparedModelSync(isOk, error)
    /\ outputShapes' = shapes
    /\ timing' = t
    /\ driverCalls' = driverCalls + 1
    /\ checks' = checks \o <<"returnIsOk">>
    /\ epc' = "executed"
    /\ callback' = [created |-> TRUE, notified |-> TRUE, status |-> error,
                    outputShapes |-> shapes, timing |-> t]
    /\ UNCHANGED <<execVars, resultVars, paramVars, skipped, request,
                   failures, fatal, skipRegistered, exit>>

SyncExecute ==
    /\ epc = "built"
    /\ \E isOk \in BOOLEAN, error \in ErrorStatus,
          shapes \in ShapeLists(evalModel), t \in Timing :
        SyncExecuteWith(isOk, error, shapes, t)

\* Lines 286-307: a burst controller is created (ASSERT_NE nullptr) and one
\* computation made through it; its result code is converted.
BurstExecuteWith(controller, n, shapes, t) ==
    /\ epc = "built"
    /\ testConfig.executor = "BURST"
    /\ driverCalls' = driverCalls + 1
    /\ IF ~controller
       THEN /\ checks' = checks \o <<"burstController">>
            /\ failures' = failures \cup {Fail("burstController")}
            /\ fatal' = "burstController"
            /\ testFailed' = TRUE
            /\ epc' = "done"
            /\ exit' = "assert"
            /\ transport' = "fault"
            /\ UNCHANGED <<executionStatus, outputShapes, timing>>
       ELSE /\ checks' = checks \o <<"burstController">>
            /\ transport' = "ok"
            /\ executionStatus' = convertResultCodeToErrorStatus(n)
            /\ outputShapes' = shapes
            /\ timing' = t
            /\ epc' = "executed"
            /\ UNCHANGED <<failures, fatal, testFailed, exit>>
    /\ UNCHANGED <<execVars, testSkipped, paramVars, skipped, request, callback,
                   skipRegistered>>

BurstExecute ==
    /\ epc = "built"
    /\ \E controller \in BOOLEAN, n \in ResultCodes,
          shapes \in ShapeLists(evalModel), t \in Timing :
        BurstExecuteWith(controller, n, shapes, t)

\* Lines 310-368.
EvalValidateWith(cmp) ==
    /\ epc = "executed"
    /\ LET v == Validate(testConfig, evalModel, hasSkipped, executionStatus,
                         outputShapes, timing, cmp)
       IN  /\ checks' = checks \o v.checks
           /\ failures' = failures \cup v.failures
           /\ fatal' = v.fatal
           /\ skipRegistered' = v.skipRegistered
           /\ skipped' = (IF v.setSkipped THEN TRUE ELSE skipped)
           /\ exit' = v.exit
           /\ testFailed' = (testFailed \/ v.failures # {})
           /\ testSkipped' = (testSkipped \/ v.skipRegistered)
    /\ epc' = "done"
    /\ UNCHANGED <<execVars, paramVars, request, callback, outcomeVars, driverCalls>>

EvalValidate ==
    /\ epc = "executed"
    /\ \E cmp \in BOOLEAN : EvalValidateWith(cmp)

\* --------------------------------------------- the scenario matrix runner
\* The nested loops `for outputType / for measureTiming / for executor` as
\* the list of the TestConfig they construct, in order.
MatrixConfigs(outputTypesList, measureTimingList, executorList, reportSkipping) ==
    LET no == Len(outputTypesList)
        nm == Len(measureTimingList)
        ne == Len(executorList)
    IN  [k \in 1..(no * nm * ne) |->
            TestConfig(executorList[((k - 1) % ne) + 1],
                       measureTimingList[(((k - 1) \div ne) % nm) + 1],
                       outputTypesList[((k - 1) \div (ne * nm)) + 1],
                       reportSkipping)]

\* Lines 376-391: the lists of EvaluatePreparedModel(.., TestKind).
outputTypesList(kind) ==
    IF kind = "GENERAL" THEN <<"FULLY_SPECIFIED">> ELSE <<"UNSPECIFIED", "INSUFFICIENT">>

measureTimingList == <<"NO", "YES">>

executorList == <<"ASYNC", "SYNC", "BURST">>

\* Lines 393-400: TestConfig(executor, measureTiming, outputType) has
\* reportSkipping = true.
KindConfigs(kind) ==
    MatrixConfigs(outputTypesList(kind), measureTimingList, executorList, TRUE)

\* Lines 407-415: the lists of EvaluatePreparedCoupledModels, with
\* reportSkipping = false.
CoupledConfigs ==
    MatrixConfigs(<<"FULLY_SPECIFIED">>, <<"NO", "YES">>, <<"ASYNC", "SYNC", "BURST">>, FALSE)

\* The Evaluator's locals once it has returned to its caller.
EvaluatorIdle ==
    /\ epc' = "idle"
    /\ skipped' = FALSE
    /\ request' = NoRequest
    /\ callback' = NoCallback
    /\ transport' = "none"
    /\ executionStatus' = "UNSET"
    /\ outputShapes' = <<>>
    /\ timing' = NoTiming
    /\ driverCalls' = 0
    /\ checks' = <<>>
    /\ failures' = {}
    /\ fatal' = "none"
    /\ skipRegistered' = FALSE
    /\ exit' = "none"
    /\ UNCHANGED paramVars

\* Line 397: the next configuration's Evaluator invocation (skipped = nullptr).
MatrixCall ==
    /\ pc = "matrix"
    /\ epc = "idle"
    /\ cfgIdx <= Len(KindConfigs(testKind))
    /\ CallEvaluator(testModel, KindConfigs(testKind)[cfgIdx], FALSE)
    /\ invoked' = Append(invoked, [config |-> KindConfigs(testKind)[cfgIdx], member |-> "base"])
    /\ UNCHANGED <<inputVars, model, signedQuantizedModel, preparedModel,
                   preparedCoupledModel, pc, cfgIdx, baseSkipped, coupledSkipped,
                   prepareCalls, resultVars>>

\* Variant of MatrixReturn that leaves the loops once the test has a failure
\* or a skip on record: C7 fails with it.
MatrixReturnStopOnFailure ==
    /\ pc = "matrix"
    /\ epc = "done"
    /\ cfgIdx' = cfgIdx + 1
    /\ pc' = (IF testFailed \/ testSkipped \/ cfgIdx + 1 > Len(KindConfigs(testKind))
              THEN "end" ELSE "matrix")
    /\ EvaluatorIdle
    /\ UNCHANGED <<inputVars, model, signedQuantizedModel, preparedModel,
                   preparedCoupledModel, baseSkipped, coupledSkipped,
                   prepareCalls, invoked, resultVars>>

\* Lines 393-400: the Evaluator has returned, however it ended; the loops go
\* on to the next configuration.
MatrixReturn ==
    /\ pc = "matrix"
    /\ epc = "done"
    /\ cfgIdx' = cfgIdx + 1
    /\ pc' = (IF cfgIdx + 1 > Len(KindConfigs(testKind)) THEN "end" ELSE "matrix")
    /\ EvaluatorIdle
    /\ UNCHANGED <<inputVars, model, signedQuantizedModel, preparedModel,
                   preparedCoupledModel, baseSkipped, coupledSkipped,
                   prepareCalls, invoked, resultVars>>

\* ------------------------------------------------ the coupling orchestrator
\* Lines 416-417: bool baseSkipped = false; the base model is evaluated.
CoupledCallBase ==
    /\ pc = "coupledBase"
    /\ epc = "idle"
    /\ baseSkipped' = FALSE
    /\ CallEvaluator(testModel, CoupledConfigs[cfgIdx], TRUE)
    /\ invoked' = Append(invoked, [config |-> CoupledConfigs[cfgIdx], member |-> "base"])
    /\ UNCHANGED <<inputVars, model, signedQuantizedModel, preparedModel,
                   preparedCoupledModel, pc, cfgIdx, coupledSkipped,
                   prepareCalls, resultVars>>

\* Lines 418-420: bool coupledSkipped = false; the coupled model is
\* evaluated with the same testConfig.
CoupledCallCoupled ==
    /\ pc = "coupledBase"
    /\ epc = "done"
    /\ baseSkipped' = skipped
    /\ coupledSkipped' = FALSE
    /\ CallEvaluator(signedQuantizedModel, CoupledConfigs[cfgIdx], TRUE)
    /\ invoked' = Append(invoked, [config |-> CoupledConfigs[cfgIdx], member |-> "coupled"])
    /\ pc' = "coupledCoupled"
    /\ UNCHANGED <<inputVars, model, signedQuantizedModel, preparedModel,
                   preparedCoupledModel, cfgIdx, prepareCalls, resultVars>>

\* Variant of PairVerdict without the ASSERT_EQ of the two indicators: C9
\* fails with it.
PairVerdictNoAssert(base, coupled) ==
    IF base THEN "skip" ELSE "next"

\* Lines 421-430: what follows a pair: "fail" (ASSERT_EQ fails, the function
\* returns), "skip" (GTEST_SKIP, the function returns) or "next".
PairVerdict(base, coupled) ==
    IF base # coupled THEN "fail"
    ELSE IF base THEN "skip"
    ELSE "next"

CoupledCheck ==
    /\ pc = "coupledCoupled"
    /\ epc = "done"
    /\ coupledSkipped' = skipped
    /\ LET v == PairVerdict(baseSkipped, skipped)
       IN  /\ testFailed' = (testFailed \/ v = "fail")
           /\ testSkipped' = (testSkipped \/ v = "skip")
           /\ cfgIdx' = (IF v = "next" THEN cfgIdx + 1 ELSE cfgIdx)
           /\ pc' = (IF v = "next" /\ cfgIdx + 1 <= Len(CoupledConfigs)
                     THEN "coupledBase" ELSE "end")
    /\ EvaluatorIdle
    /\ UNCHANGED <<inputVars, model, signedQuantizedModel, preparedModel,
                   preparedCoupledModel, baseSkipped, prepareCalls, invoked>>

\* ---------------------------------------------------------------- Execute
\* createPreparedModel(device, model, &preparedModel): a handle, or null when
\* the backend does not support the model.
PreparedModels == {"null", "handle"}

\* Lines 437-440: the model is translated and, for DYNAMIC_SHAPE, its output
\* dimensions are blanked.
ExecuteCreateModel ==
    /\ pc = "start"
    /\ \E memory \in SharedMemories(constRefSize(testModel)) :
        /\ allocations' =
              (IF constRefSize(testModel) > 0
               THEN Append(allocations,
                           [requested |-> constRefSize(testModel),
                            memory |-> memory])
               ELSE allocations)
        /\ IF createModelAborts(testModel, memory)
           THEN /\ model' = model
                /\ pc' = "aborted"
           ELSE /\ model' = (IF testKind = "DYNAMIC_SHAPE"
                             THEN makeOutputDimensionsUnspecified(createModel(testModel))
                             ELSE createModel(testModel))
                /\ pc' = "prepare"
    /\ UNCHANGED <<testKind, testModel, answer, observed,
                   signedQuantizedModel, preparedModel,
                   preparedCoupledModel, cfgIdx, baseSkipped, coupledSkipped,
                   prepareCalls, invoked, resultVars, evalVars>>

\* A variant of ExecutePrepare without the test of the handle.
ExecutePrepareUnchecked ==
    /\ pc = "prepare"
    /\ testKind \in {"GENERAL", "DYNAMIC_SHAPE"}
    /\ \E h \in PreparedModels : preparedModel' = h
    /\ pc' = "matrix"
    /\ prepareCalls' = Append(prepareCalls, [model |-> model, reportSkipping |-> TRUE])
    /\ cfgIdx' = 1
    /\ UNCHANGED <<inputVars, model, signedQuantizedModel,
                   preparedCoupledModel, baseSkipped, coupledSkipped,
                   invoked, resultVars, evalVars>>

\* Lines 444-453: GENERAL and DYNAMIC_SHAPE prepare the model and return when
\* the handle is null.
ExecutePrepare ==
    /\ pc = "prepare"
    /\ testKind \in {"GENERAL", "DYNAMIC_SHAPE"}
    /\ \E h \in PreparedModels :
        /\ preparedModel' = h
        /\ pc' = (IF h = "null" THEN "end" ELSE "matrix")
    /\ prepareCalls' = Append(prepareCalls, [model |-> model, reportSkipping |-> TRUE])
    /\ cfgIdx' = 1
    /\ UNCHANGED <<inputVars, model, signedQuantizedModel,
                   preparedCoupledModel, baseSkipped, coupledSkipped,
                   invoked, resultVars, evalVars>>

\* Lines 455-456: QUANTIZATION_COUPLING asserts that the model has coupled
\* operands and prepares the unsigned model.
ExecutePrepareBase ==
    /\ pc = "prepare"
    /\ testKind = "QUANTIZATION_COUPLING"
    /\ IF ~hasQuant8CoupledOperands(testModel)
       THEN /\ testFailed' = TRUE
            /\ pc' = "end"
            /\ UNCHANGED <<preparedModel, prepareCalls>>
       ELSE /\ \E h \in PreparedModels : preparedModel' = h
            /\ prepareCalls' = Append(prepareCalls, [model |-> model, reportSkipping |-> FALSE])
            /\ pc' = "prepareCoupled"
            /\ UNCHANGED testFailed
    /\ UNCHANGED <<inputVars, model, signedQuantizedModel,
                   preparedCoupledModel, cfgIdx, baseSkipped, coupledSkipped,
                   invoked, testSkipped, evalVars>>

\* Variant of CouplingVerdict that skips whenever the unsigned model did not
\* prepare, without the ASSERT_EQ on the signed one: C8 fails with it.
CouplingVerdictSkipOnBaseNull(base, coupled) ==
    IF base = "null"
    THEN "skip"
    ELSE (IF coupled = "null" THEN "fail" ELSE "run")

\* Lines 463-475: what Execute does with the two handles: "fail" (ASSERT_EQ
\* or ASSERT_NE fails), "skip" (GTEST_SKIP) or "run".
CouplingVerdict(base, coupled) ==
    IF base = "null"
    THEN (IF coupled # "null" THEN "fail" ELSE "skip")
    ELSE (IF coupled = "null" THEN "fail" ELSE "run")

\* Lines 457-476: the signed model is made and prepared, the two handles are
\* compared.
ExecutePrepareCoupled ==
    /\ pc = "prepareCoupled"
    /\ signedQuantizedModel' = convertQuant8AsymmOperandsToSigned(testModel)
    /\ prepareCalls' = Append(prepareCalls,
                              [model |-> createModel(convertQuant8AsymmOperandsToSigned(testModel)),
                               reportSkipping |-> FALSE])
    /\ \E h \in PreparedModels :
        /\ preparedCoupledModel' = h
        /\ LET v == CouplingVerdict(preparedModel, h)
           IN  /\ testFailed' = (testFailed \/ v = "fail")
               /\ testSkipped' = (testSkipped \/ v = "skip")
               /\ pc' = (IF v = "run" THEN "coupledBase" ELSE "end")
    /\ cfgIdx' = 1
    /\ UNCHANGED <<inputVars, model, preparedModel, baseSkipped,
                   coupledSkipped, invoked, evalVars>>

\* A test: Execute(kDevice, kTestModel, testKind) on a model its
\* instantiation's filter lets through (lines 505-525).
Init ==
    /\ testKind \in TestKind
    /\ testModel \in TestModels
    /\ testKind = "QUANTIZATION_COUPLING" => hasQuant8CoupledOperands(testModel)
    /\ model = NoModel
    /\ signedQuantizedModel = testModel
    /\ preparedModel = "null"
    /\ preparedCoupledModel = "null"
    /\ pc = "start"
    /\ cfgIdx = 0
    /\ baseSkipped = FALSE
    /\ coupledSkipped = FALSE
    /\ prepareCalls = <<>>
    /\ invoked = <<>>
    /\ answer = NoAnswer
    /\ observed = <<>>
    /\ allocations = <<>>
    /\ testFailed = FALSE
    /\ testSkipped = FALSE
    /\ epc = "idle"
    /\ evalModel = testModel
    /\ testConfig = TestConfig("ASYNC", "NO", "FULLY_SPECIFIED", TRUE)
    /\ hasSkipped = FALSE
    /\ skipped = FALSE
    /\ request = NoRequest
    /\ callback = NoCallback
    /\ transport = "none"
    /\ executionStatus = "UNSET"
    /\ outputShapes = <<>>
    /\ timing = NoTiming
    /\ driverCalls = 0
    /\ checks = <<>>
    /\ failures = {}
    /\ fatal = "none"
    /\ skipRegistered = FALSE
    /\ exit = "none"

Next ==
    \/ ExecuteCreateModel
    \/ ExecutePrepare
    \/ ExecutePrepareBase
    \/ ExecutePrepareCoupled
    \/ MatrixCall
    \/ MatrixReturn
    \/ CoupledCallBase
    \/ CoupledCallCoupled
    \/ CoupledCheck
    \/ EvalEntry
    \/ AsyncSubmit
    \/ AsyncLaunch
    \/ AsyncNotify
    \/ AsyncWait
    \/ SyncExecute
    \/ BurstExecute
    \/ EvalValidate

Spec == Init /\ [][Next]_vars

\* The steps of the thread that runs the test: everything but the backend's
\* part in a call.
HarnessNext ==
    \/ ExecuteCreateModel
    \/ ExecutePrepare
    \/ ExecutePrepareBase
    \/ ExecutePrepareCoupled
    \/ MatrixCall
    \/ MatrixReturn
    \/ CoupledCallBase
    \/ CoupledCallCoupled
    \/ CoupledCheck
    \/ EvalEntry
    \/ AsyncSubmit
    \/ AsyncWait
    \/ EvalValidate

\* The backend returns from execute_1_3, executeSynchronously_1_3 and the
\* burst computation.
BackendReturns ==
    \/ AsyncLaunch
    \/ SyncExecute
    \/ BurstExecute

\* Execute run by a thread that is never starved, against a backend that
\* returns from every call and fires the completion signal of every
\* asynchronous submission.
FairSpec ==
    /\ Init
    /\ [][Next]_vars
    /\ WF_vars(HarnessNext)
    /\ WF_vars(BackendReturns)
    /\ WF_vars(AsyncNotify)

\* ------------------------------------- one Evaluator invocation on its own
\* EvaluatePreparedModel called once with any test model, any TestConfig and
\* with or without a `skipped` out-parameter.
EvalInit ==
    /\ testKind = "GENERAL"
    /\ testModel \in TestModels
    /\ model = NoModel
    /\ signedQuantizedModel = testModel
    /\ preparedModel = "handle"
    /\ preparedCoupledModel = "null"
    /\ pc = "evaluator"
    /\ cfgIdx = 0
    /\ baseSkipped = FALSE
    /\ coupledSkipped = FALSE
    /\ prepareCalls = <<>>
    /\ invoked = <<>>
    /\ answer = NoAnswer
    /\ observed = <<>>
    /\ allocations = <<>>
    /\ testFailed = FALSE
    /\ testSkipped = FALSE
    /\ epc = "entry"
    /\ evalModel = testModel
    /\ testConfig \in TestConfigs
    /\ hasSkipped \in BOOLEAN
    /\ skipped = FALSE
    /\ request = NoRequest
    /\ callback = NoCallback
    /\ transport = "none"
    /\ executionStatus = "UNSET"
    /\ outputShapes = <<>>
    /\ timing = NoTiming
    /\ driverCalls = 0
    /\ checks = <<>>
    /\ failures = {}
    /\ fatal = "none"
    /\ skipRegistered = FALSE
    /\ exit = "none"

EvalNext ==
    \/ EvalEntry
    \/ AsyncSubmit
    \/ AsyncLaunch
    \/ AsyncNotify
    \/ AsyncWait
    \/ SyncExecute
    \/ BurstExecute
    \/ EvalValidate

EvalSpec == EvalInit /\ [][EvalNext]_vars

\* ------------------------------------------ the translation of constants
\* Test models with constants, for createModel and the start of Execute.
\* The data of an operand is one byte, one alignment unit, or one byte more
\* than that; the operand of one alignment unit has rank 2.
DataSizes == {1, kAlignment, kAlignment + 1}

DimensionsOfSize(size) ==
    IF size = kAlignment THEN <<2, size \div 2>> ELSE <<size>>

ConstantOperands ==
    {TestOperand(lifetime, DimensionsOfSize(size)) :
        lifetime \in {"CONSTANT_COPY", "CONSTANT_REFERENCE",
                      "SUBGRAPH_INPUT", "SUBGRAPH_OUTPUT"},
        size \in DataSizes}

\* The indexes among 1..i of the operands of the given lifetimes, in order.
RECURSIVE IndexesOf(_, _, _)
IndexesOf(operands, lifetimes, i) ==
    IF i = 0 THEN <<>>
    ELSE IF operands[i].lifetime \in lifetimes
         THEN Append(IndexesOf(operands, lifetimes, i - 1), i)
         ELSE IndexesOf(operands, lifetimes, i - 1)

\* One operation that reads every constant and input and writes every
\* output.
ConstantTestModel(operands) ==
    [operands |-> operands,
     operations |->
        <<[type |-> "OPERATION",
           inputs |-> IndexesOf(operands, {"CONSTANT_COPY", "CONSTANT_REFERENCE",
                                           "SUBGRAPH_INPUT"}, Len(operands)),
           outputs |-> IndexesOf(operands, {"SUBGRAPH_OUTPUT"}, Len(operands))]>>,
     inputIndexes |-> IndexesOf(operands, {"SUBGRAPH_INPUT"}, Len(operands)),
     outputIndexes |-> IndexesOf(operands, {"SUBGRAPH_OUTPUT"}, Len(operands)),
     isRelaxed |-> TRUE]

\* Every such model of at most MaxOperands operands with an output.
ConstantTestModels ==
    {ConstantTestModel(operands) :
        operands \in {o \in UNION {[1..n -> ConstantOperands] : n \in 1..MaxOperands} :
                        \E i \in 1..Len(o) : o[i].lifetime = "SUBGRAPH_OUTPUT"}}

TranslateInit ==
    /\ testKind \in {"GENERAL", "DYNAMIC_SHAPE"}
    /\ testModel \in ConstantTestModels
    /\ model = NoModel
    /\ signedQuantizedModel = testModel
    /\ preparedModel = "null"
    /\ preparedCoupledModel = "null"
    /\ pc = "start"
    /\ cfgIdx = 0
    /\ baseSkipped = FALSE
    /\ coupledSkipped = FALSE
    /\ prepareCalls = <<>>
    /\ invoked = <<>>
    /\ answer = NoAnswer
    /\ observed = <<>>
    /\ allocations = <<>>
    /\ testFailed = FALSE
    /\ testSkipped = FALSE
    /\ epc = "idle"
    /\ evalModel = testModel
    /\ testConfig = TestConfig("ASYNC", "NO", "FULLY_SPECIFIED", TRUE)
    /\ hasSkipped = FALSE
    /\ skipped = FALSE
    /\ request = NoRequest
    /\ callback = NoCallback
    /\ transport = "none"
    /\ executionStatus = "UNSET"
    /\ outputShapes = <<>>
    /\ timing = NoTiming
    /\ driverCalls = 0
    /\ checks = <<>>
    /\ failures = {}
    /\ fatal = "none"
    /\ skipRegistered = FALSE
    /\ exit = "none"

\* Execute from its start to the entry of its first Evaluator invocation.
TranslateNext ==
    \/ ExecuteCreateModel
    \/ ExecutePrepare
    \/ MatrixCall
    \/ EvalEntry

TranslateSpec == TranslateInit /\ [][TranslateNext]_vars

\* ------------------------------------------------- the skipped indicator
\* EvaluatePreparedModel called with a `skipped` pointer whose target holds
\* either value, under any TestConfig.
SkipEvalInit ==
    /\ testKind = "GENERAL"
    /\ testModel \in TestModels
    /\ model = NoModel
    /\ signedQuantizedModel = testModel
    /\ preparedModel = "handle"
    /\ preparedCoupledModel = "null"
    /\ pc = "evaluator"
    /\ cfgIdx = 0
    /\ baseSkipped = FALSE
    /\ coupledSkipped = FALSE
    /\ prepareCalls = <<>>
    /\ invoked = <<>>
    /\ answer = NoAnswer
    /\ observed = <<>>
    /\ allocations = <<>>
    /\ testFailed = FALSE
    /\ testSkipped = FALSE
    /\ epc = "entry"
    /\ evalModel = testModel
    /\ testConfig \in TestConfigs
    /\ hasSkipped = TRUE
    /\ skipped \in BOOLEAN
    /\ request = NoRequest
    /\ callback = NoCallback
    /\ transport = "none"
    /\ executionStatus = "UNSET"
    /\ outputShapes = <<>>
    /\ timing = NoTiming
    /\ driverCalls = 0
    /\ checks = <<>>
    /\ failures = {}
    /\ fatal = "none"
    /\ skipRegistered = FALSE
    /\ exit = "none"

\* A QUANTIZATION_COUPLING test from its start, or one such call of the
\* Evaluator.
SkipInit ==
    \/ Init /\ testKind = "QUANTIZATION_COUPLING"
    \/ SkipEvalInit

SkipNext ==
    \/ ExecuteCreateModel
    \/ ExecutePrepareBase
    \/ ExecutePrepareCoupled
    \/ CoupledCallBase
    \/ CoupledCallCoupled
    \/ CoupledCheck
    \/ EvalEntry
    \/ AsyncSubmit
    \/ AsyncLaunch
    \/ AsyncNotify
    \/ AsyncWait
    \/ SyncExecute
    \/ BurstExecute
    \/ EvalValidate

SkipSpec == SkipInit /\ [][SkipNext]_vars

\* ------------------------------------------- makeOutputInsufficientSize
\* The helper on its own: applied, up to MaxApplications times, to outputs of
\* a request whose outputs have any byte lengths. `observed` is the record of
\* the applications.

RECURSIVE LengthLists(_)
LengthLists(len) ==
    IF len = 0 THEN {<<>>}
    ELSE {Append(l, x) : l \in LengthLists(len - 1), x \in 0..MaxLength}

ShrinkRequests ==
    {[built |-> TRUE, inputs |-> <<2>>, outputs |-> o, pools |-> <<2, SumOf(o)>>] :
        o \in UNION {LengthLists(len) : len \in 1..MaxOutputs}}

\* Lines 195-199 applied to output `outputIndex` (from 1) of the request; a
\* failed ASSERT_GT is a fatal failure of the test and leaves the request.
ShrinkApply ==
    /\ pc = "shrink"
    /\ Len(observed) < MaxApplications
    /\ \E outputIndex \in 1..Len(request.outputs) :
        LET bad == ~ShrinkPreconditionHolds(request, outputIndex)
            shrunk == makeOutputInsufficientSize(outputIndex, request)
        IN  /\ request' = shrunk
            /\ failures' = (IF bad THEN failures \cup {Fail("shrinkPrecondition")}
                            ELSE failures)
            /\ testFailed' = (testFailed \/ bad)
            /\ observed' = Append(observed,
                                  [outputIndex |-> outputIndex,
                                   before |-> request,
                                   after |-> shrunk,
                                   failed |-> bad])
    /\ UNCHANGED <<testKind, testModel, model, signedQuantizedModel,
                   preparedModel, preparedCoupledModel, pc, cfgIdx, baseSkipped,
                   coupledSkipped, allocations, prepareCalls, invoked, answer,
                   testSkipped, epc, paramVars, skipped, callback, outcomeVars, driverCalls,
                   checks, fatal, skipRegistered, exit>>

ShrinkInit ==
    /\ testKind = "GENERAL"
    /\ testModel \in {TestModel(1, 1)}
    /\ model = NoModel
    /\ signedQuantizedModel = testModel
    /\ preparedModel = "null"
    /\ preparedCoupledModel = "null"
    /\ pc = "shrink"
    /\ cfgIdx = 0
    /\ baseSkipped = FALSE
    /\ coupledSkipped = FALSE
    /\ prepareCalls = <<>>
    /\ invoked = <<>>
    /\ answer = NoAnswer
    /\ observed = <<>>
    /\ allocations = <<>>
    /\ testFailed = FALSE
    /\ testSkipped = FALSE
    /\ epc = "idle"
    /\ evalModel = testModel
    /\ testConfig = TestConfig("ASYNC", "NO", "INSUFFICIENT", TRUE)
    /\ hasSkipped = FALSE
    /\ skipped = FALSE
    /\ request \in ShrinkRequests
    /\ callback = NoCallback
    /\ transport = "none"
    /\ executionStatus = "UNSET"
    /\ outputShapes = <<>>
    /\ timing = NoTiming
    /\ driverCalls = 0
    /\ checks = <<>>
    /\ failures = {}
    /\ fatal = "none"
    /\ skipRegistered = FALSE
    /\ exit = "none"

ShrinkNext == ShrinkApply

ShrinkSpec == ShrinkInit /\ [][ShrinkNext]_vars

\* ---------------------------------------------------- protocol comparison
\* The same invocation made once per executor (the innermost loop of lines
\* 393-400 and 407-415) against a backend that gives one answer to the
\* request, whichever entry point it is asked through: execute_1_3 and its
\* callback, executeSynchronously_1_3, or the burst controller's compute().

\* The models submitted in the comparison: one output, of every size.
EquivModels == {TestModel(1, k) : k \in 1..MaxDim}

\* The two ways the Evaluator is called: reporting its skips itself (line
\* 397) or handing them back through `skipped` (lines 417 and 419).
EquivConfigs ==
    {c \in TestConfigs : c.executor = executorList[1]}

BackendAnswers(tm) ==
    [status : ErrorStatus, outputShapes : ShapeLists(tm), timing : Timing,
     outputsMatch : BOOLEAN]

\* What one invocation ended with.
Observation ==
    [executor |-> testConfig.executor,
     executionStatus |-> executionStatus,
     outputShapes |-> outputShapes,
     timing |-> timing,
     checks |-> checks,
     failures |-> failures,
     fatal |-> fatal,
     skipRegistered |-> skipRegistered,
     skipped |-> skipped,
     exit |-> exit]

EquivCall ==
    /\ pc = "equivalence"
    /\ epc = "idle"
    /\ cfgIdx <= Len(executorList)
    /\ CallEvaluator(testModel,
                     [testConfig EXCEPT !.executor = executorList[cfgIdx]],
                     hasSkipped)
    /\ UNCHANGED <<execVars, resultVars>>

EquivReturn ==
    /\ pc = "equivalence"
    /\ epc = "done"
    /\ observed' = Append(observed, Observation)
    /\ cfgIdx' = cfgIdx + 1
    /\ pc' = (IF cfgIdx = Len(executorList) THEN "end" ELSE pc)
    /\ EvaluatorIdle
    /\ UNCHANGED <<testKind, testModel, model, signedQuantizedModel,
                   preparedModel, preparedCoupledModel, baseSkipped,
                   coupledSkipped, allocations, prepareCalls, invoked, answer,
                   resultVars>>

\* execute_1_3 returns over a working transport; a backend that rejects the
\* request may say so in the launch status as well as in the callback.
EquivAsyncLaunch ==
    \E executionLaunchStatus \in {"NONE", answer.status} :
        AsyncLaunchWith(TRUE, executionLaunchStatus)

EquivAsyncNotify ==
    AsyncNotifyWith(answer.status, answer.outputShapes, answer.timing)

EquivSyncExecute ==
    SyncExecuteWith(TRUE, answer.status, answer.outputShapes, answer.timing)

EquivBurstExecute ==
    BurstExecuteWith(TRUE, convertErrorStatusToResultCode(answer.status),
                     answer.outputShapes, answer.timing)

\* The same output bytes compare the same against the expected results.
EquivValidate == EvalValidateWith(answer.outputsMatch)

EquivInit ==
    /\ testKind = "GENERAL"
    /\ testModel \in EquivModels
    /\ model = NoModel
    /\ signedQuantizedModel = testModel
    /\ preparedModel = "handle"
    /\ preparedCoupledModel = "null"
    /\ pc = "equivalence"
    /\ cfgIdx = 1
    /\ baseSkipped = FALSE
    /\ coupledSkipped = FALSE
    /\ prepareCalls = <<>>
    /\ invoked = <<>>
    /\ answer \in BackendAnswers(testModel)
    /\ observed = <<>>
    /\ allocations = <<>>
    /\ testFailed = FALSE
    /\ testSkipped = FALSE
    /\ epc = "idle"
    /\ evalModel = testModel
    /\ testConfig \in EquivConfigs
    /\ hasSkipped = ~testConfig.reportSkipping
    /\ skipped = FALSE
    /\ request = NoRequest
    /\ callback = NoCallback
    /\ transport = "none"
    /\ executionStatus = "UNSET"
    /\ outputShapes = <<>>
    /\ timing = NoTiming
    /\ driverCalls = 0
    /\ checks = <<>>
    /\ failures = {}
    /\ fatal = "none"
    /\ skipRegistered = FALSE
    /\ exit = "none"

EquivNext ==
    \/ EquivCall
    \/ EvalEntry
    \/ AsyncSubmit
    \/ EquivAsyncLaunch
    \/ EquivAsyncNotify
    \/ AsyncWait
    \/ EquivSyncExecute
    \/ EquivBurstExecute
    \/ EquivValidate
    \/ EquivReturn

EquivSpec == EquivInit /\ [][EquivNext]_vars

\* ----------------------------------------------------------------- claims
Contains(seq, x) == \E i \in 1..Len(seq) : seq[i] = x

\* The byte size the test model declares for output 0.
Output0Size == evalModel.operands[evalModel.outputIndexes[1]].size

NumOutputs == Len(evalModel.outputIndexes)

\* The checks made on what a driver returned.
ValidationTags ==
    {"timing", "status", "shapeCount", "out0Insufficient", "outputShapes",
     "getOutputBuffers", "checkResults"}

ValidationChecks == {checks[i] : i \in 1..Len(checks)} \cap ValidationTags

TimingTags == {Fail("timeOnDevice"), Fail("timeInDriver"), Fail("timingOrder")}

\* A driver has handed a status back to the Evaluator, which has finished.
DriverReturned == epc = "done" /\ executionStatus # "UNSET"

\* C1 as stated: an Evaluator invocation under UNSPECIFIED or INSUFFICIENT
\* whose driver returned GENERAL_FAILURE ends as a skip and records no
\* failure at all.
C1_NeverAFailure ==
    (DriverReturned /\ testConfig.outputType \in {"UNSPECIFIED", "INSUFFICIENT"}
                    /\ executionStatus = "GENERAL_FAILURE")
    => /\ exit \in {"GTEST_SKIP", "return316"}
       /\ failures = {}
       /\ ~testFailed

\* C1: an Evaluator invocation under UNSPECIFIED or INSUFFICIENT whose driver
\* returned GENERAL_FAILURE ends as a skip and not with a fatal failure: the
\* `skipped` indicator, when one was handed in, is true; no timing, status,
\* shape or output check is made and no failure of such a check recorded;
\* a gtest skip is registered exactly when reportSkipping is set, and the
\* function returns silently when it is not. The one failure such an
\* invocation can carry is the asynchronous driver's own non-fatal check of
\* its launch status (line 265), made before the status is classified.
C1_GeneralFailureIsSkip ==
    (DriverReturned /\ testConfig.outputType \in {"UNSPECIFIED", "INSUFFICIENT"}
                    /\ executionStatus = "GENERAL_FAILURE")
    => /\ exit \in {"GTEST_SKIP", "return316"}
       /\ fatal = "none"
       /\ hasSkipped => skipped
       /\ ValidationChecks = {}
       /\ failures \subseteq {Fail("launchStatus")}
       /\ failures # {} => testConfig.executor = "ASYNC"
       /\ skipRegistered <=> testConfig.reportSkipping
       /\ testSkipped <=> testConfig.reportSkipping
       /\ exit = "return316" <=> ~testConfig.reportSkipping

C1_Witness ==
    /\ DriverReturned
    /\ testConfig.outputType = "INSUFFICIENT"
    /\ executionStatus = "GENERAL_FAILURE"
    /\ hasSkipped /\ skipped
    /\ ~testConfig.reportSkipping
    /\ exit = "return316"

\* C2 as stated: an INSUFFICIENT invocation on a model whose output 0 has at
\* most one byte is reported as skipped (a registered skip or a true
\* `skipped` indicator) and builds no request and invokes no driver.
C2_ReportedAsSkipped ==
    (epc = "done" /\ testConfig.outputType = "INSUFFICIENT" /\ Output0Size <= 1)
    => /\ skipRegistered \/ testSkipped \/ (hasSkipped /\ skipped)
       /\ ~request.built
       /\ driverCalls = 0

\* C2, amended: such an invocation returns at once without attempting the
\* scenario (no request built, no output shrunk, no driver invoked, no check
\* made) and does so silently: no skip is registered, the `skipped` indicator
\* stays false and no failure is recorded.
C2_SilentReturn ==
    (epc # "entry" /\ epc # "idle" /\ testConfig.outputType = "INSUFFICIENT"
                   /\ Output0Size <= 1)
    => /\ epc = "done"
       /\ exit = "return245"
       /\ request = NoRequest
       /\ driverCalls = 0
       /\ executionStatus = "UNSET"
       /\ checks = <<>>
       /\ failures = {}
       /\ ~skipRegistered
       /\ ~skipped

C2_Witness ==
    /\ epc = "done"
    /\ exit = "return245"
    /\ testConfig.outputType = "INSUFFICIENT"
    /\ Output0Size = 1
    /\ hasSkipped

\* C3: under INSUFFICIENT with an output 0 of more than one byte, the policy
\* checks pass exactly when the status is OUTPUT_INSUFFICIENT_SIZE, there is
\* one returned shape per output and output 0 is marked insufficient; a
\* status other than that and GENERAL_FAILURE is a fatal failure; and in
\* every case the output shapes are not compared, the output buffers not
\* retrieved and the comparator not invoked.
C3_InsufficientPolicy ==
    (DriverReturned /\ testConfig.outputType = "INSUFFICIENT" /\ Output0Size > 1)
    => /\ (exit = "return352" <=>
              /\ executionStatus = "OUTPUT_INSUFFICIENT_SIZE"
              /\ Len(outputShapes) = NumOutputs
              /\ ~outputShapes[1].isSufficient)
       /\ failures = {} => executionStatus \in {"OUTPUT_INSUFFICIENT_SIZE", "GENERAL_FAILURE"}
       /\ executionStatus \notin {"OUTPUT_INSUFFICIENT_SIZE", "GENERAL_FAILURE"}
              => fatal = "status" /\ exit = "assert" /\ Fail("status") \in failures
       /\ exit # "end"
       /\ ValidationChecks \cap {"outputShapes", "getOutputBuffers", "checkResults"} = {}

C3_Witness ==
    /\ DriverReturned
    /\ testConfig.outputType = "INSUFFICIENT"
    /\ exit = "return352"
    /\ executionStatus = "OUTPUT_INSUFFICIENT_SIZE"
    /\ request.outputs[1] = Output0Size - 1

\* C4: whenever a driver returned and the invocation is not the
\* GENERAL_FAILURE skip, whatever the executor: with measureTiming NO a
\* timing failure is recorded unless both times are UINT64_MAX; with YES one
\* is recorded exactly when both are known and timeOnDevice > timeInDriver;
\* and the failure is not fatal: the status check of the policy is made
\* after it.
C4_TimingCheck ==
    (DriverReturned /\ ~(testConfig.outputType # "FULLY_SPECIFIED"
                         /\ executionStatus = "GENERAL_FAILURE"))
    => /\ testConfig.measureTiming = "NO" =>
              /\ Fail("timeOnDevice") \in failures <=> timing.timeOnDevice # UINT64_MAX
              /\ Fail("timeInDriver") \in failures <=> timing.timeInDriver # UINT64_MAX
              /\ Fail("timingOrder") \notin failures
       /\ testConfig.measureTiming = "YES" =>
              /\ Fail("timingOrder") \in failures <=>
                     /\ timing.timeOnDevice # UINT64_MAX
                     /\ timing.timeInDriver # UINT64_MAX
                     /\ timing.timeOnDevice > timing.timeInDriver
              /\ Fail("timeOnDevice") \notin failures
              /\ Fail("timeInDriver") \notin failures
       /\ "timing" \in ValidationChecks /\ "status" \in ValidationChecks
       /\ fatal \notin {"timeOnDevice", "timeInDriver", "timingOrder"}

C4_Witness ==
    /\ DriverReturned
    /\ testConfig.executor = "BURST"
    /\ testConfig.measureTiming = "YES"
    /\ timing.timeOnDevice = 2 /\ timing.timeInDriver = 1
    /\ Fail("timingOrder") \in failures
    /\ exit = "end"

\* C5: under FULLY_SPECIFIED and UNSPECIFIED the comparator is reached only
\* with status NONE and one returned shape per output, or, under
\* FULLY_SPECIFIED alone, no returned shape at all; under FULLY_SPECIFIED
\* every other status, GENERAL_FAILURE included, is a fatal failure and
\* never a skip.
C5_SuccessPolicies ==
    (DriverReturned /\ testConfig.outputType \in {"FULLY_SPECIFIED", "UNSPECIFIED"})
    => /\ "checkResults" \in ValidationChecks =>
              /\ executionStatus = "NONE"
              /\ \/ Len(outputShapes) = NumOutputs
                 \/ testConfig.outputType = "FULLY_SPECIFIED" /\ Len(outputShapes) = 0
       /\ (testConfig.outputType = "FULLY_SPECIFIED" /\ executionStatus # "NONE") =>
              /\ fatal = "status"
              /\ exit = "assert"
              /\ Fail("status") \in failures
              /\ ~skipRegistered
              /\ ~skipped

C5_Witness ==
    /\ DriverReturned
    /\ testConfig.outputType = "FULLY_SPECIFIED"
    /\ executionStatus = "NONE"
    /\ outputShapes = <<>>
    /\ "checkResults" \in ValidationChecks

ExpectedConfigs(kind) ==
    {TestConfig(e, m, o, TRUE) :
        e \in {"ASYNC", "SYNC", "BURST"}, m \in {"NO", "YES"},
        o \in IF kind = "GENERAL" THEN {"FULLY_SPECIFIED"}
              ELSE {"UNSPECIFIED", "INSUFFICIENT"}}

InvokedConfigs == {invoked[i].config : i \in 1..Len(invoked)}

\* C7: with a non-null prepared handle, a GENERAL test has made exactly 6
\* Evaluator invocations when it ends and a DYNAMIC_SHAPE test exactly 12,
\* one for each configuration of its matrix and none twice, whatever the
\* earlier invocations recorded; until then no configuration is invoked
\* twice.
C7_MatrixInvocations ==
    (testKind \in {"GENERAL", "DYNAMIC_SHAPE"} /\ preparedModel = "handle")
    => /\ InvokedConfigs \subseteq ExpectedConfigs(testKind)
       /\ Cardinality(InvokedConfigs) = Len(invoked)
       /\ \A i \in 1..Len(invoked) : invoked[i].member = "base"
       /\ pc = "end" =>
            /\ Len(invoked) = (IF testKind = "GENERAL" THEN 6 ELSE 12)
            /\ InvokedConfigs = ExpectedConfigs(testKind)

C7_Witness ==
    /\ testKind = "DYNAMIC_SHAPE"
    /\ pc = "end"
    /\ Len(invoked) = 12
    /\ testFailed /\ testSkipped

SignedCounterpart(m) ==
    [m EXCEPT !.operands =
        [i \in 1..Len(m.operands) |->
            [m.operands[i] EXCEPT !.type = "TENSOR_QUANT8_ASYMM_SIGNED"]]]

\* C8: a QUANTIZATION_COUPLING test submits both the unsigned model and its
\* signed counterpart for preparation; after that, both handles null: the
\* test is skipped, has no failure and evaluates nothing; exactly one null:
\* the test has failed, is not skipped and evaluates nothing; both non-null:
\* the coupled matrix runs.
C8_CouplingPreparation ==
    (testKind = "QUANTIZATION_COUPLING" /\ pc \notin {"start", "prepare", "prepareCoupled"})
    => /\ Len(prepareCalls) = 2
       /\ prepareCalls[1].model = model
       /\ prepareCalls[2].model = SignedCounterpart(model)
       /\ prepareCalls[1].model # prepareCalls[2].model
       /\ (preparedModel = "null" /\ preparedCoupledModel = "null") =>
              pc = "end" /\ testSkipped /\ ~testFailed /\ invoked = <<>> /\ epc = "idle"
       /\ (preparedModel = "null" /\ preparedCoupledModel # "null") =>
              pc = "end" /\ testFailed /\ ~testSkipped /\ invoked = <<>> /\ epc = "idle"
       /\ (preparedModel # "null" /\ preparedCoupledModel = "null") =>
              pc = "end" /\ testFailed /\ ~testSkipped /\ invoked = <<>> /\ epc = "idle"
       /\ (preparedModel # "null" /\ preparedCoupledModel # "null") =>
              /\ pc \in {"coupledBase", "coupledCoupled", "end"}
              /\ pc = "end" => Len(invoked) >= 2

C8_Witness ==
    /\ testKind = "QUANTIZATION_COUPLING"
    /\ pc = "end"
    /\ preparedModel = "null" /\ preparedCoupledModel = "handle"
    /\ testFailed /\ ~testSkipped
    /\ Len(prepareCalls) = 2

\* The six configurations of the coupled matrix, in the order of the loops.
ExpectedCoupledConfigs ==
    << TestConfig("ASYNC", "NO", "FULLY_SPECIFIED", FALSE),
       TestConfig("SYNC", "NO", "FULLY_SPECIFIED", FALSE),
       TestConfig("BURST", "NO", "FULLY_SPECIFIED", FALSE),
       TestConfig("ASYNC", "YES", "FULLY_SPECIFIED", FALSE),
       TestConfig("SYNC", "YES", "FULLY_SPECIFIED", FALSE),
       TestConfig("BURST", "YES", "FULLY_SPECIFIED", FALSE) >>

\* The invocations are made pairwise and in order: invocation 2k-1 is the
\* base model and invocation 2k the coupled model, both under the k-th
\* configuration, each with a `skipped` out-parameter.
CoupledLockstep ==
    testKind = "QUANTIZATION_COUPLING"
    => /\ Len(invoked) <= 2 * Len(ExpectedCoupledConfigs)
       /\ \A i \in 1..Len(invoked) :
            /\ invoked[i].config = ExpectedCoupledConfigs[(i + 1) \div 2]
            /\ invoked[i].member = (IF i % 2 = 1 THEN "base" ELSE "coupled")
       /\ epc # "idle" =>
            /\ hasSkipped
            /\ testConfig = invoked[Len(invoked)].config
            /\ evalModel = (IF Len(invoked) % 2 = 1 THEN testModel
                            ELSE signedQuantizedModel)
       /\ (pc = "end" /\ preparedModel = "handle" /\ preparedCoupledModel = "handle") =>
            /\ Len(invoked) % 2 = 0
            /\ \/ Len(invoked) = 2 * Len(ExpectedCoupledConfigs)
               \/ baseSkipped \/ coupledSkipped

\* What follows a pair: the two indicators differ: a failure, and the
\* remaining configurations are not evaluated; both true: a skip is
\* registered, and the remaining configurations are not evaluated; both
\* false: the next pair, if any.
PairHandling ==
    (pc = "coupledCoupled" /\ epc = "done" /\ pc' # pc)
    => /\ coupledSkipped' = skipped
       /\ baseSkipped # skipped => testFailed' /\ pc' = "end" /\ invoked' = invoked
       /\ (baseSkipped /\ skipped) => testSkipped' /\ pc' = "end" /\ invoked' = invoked
       /\ (~baseSkipped /\ ~skipped) =>
            /\ testFailed' = testFailed /\ testSkipped' = testSkipped
            /\ pc' = (IF Len(invoked) < 2 * Len(ExpectedCoupledConfigs)
                      THEN "coupledBase" ELSE "end")

\* C9: when both coupled models prepare, the six FULLY_SPECIFIED
\* configurations are evaluated in order, base model first and coupled model
\* second under the same configuration with reportSkipping false; after each
\* pair the two skipped indicators are compared: unequal is a failure that
\* ends the matrix, both true registers a skip and ends the matrix.
C9_CoupledMatrix ==
    /\ []CoupledLockstep
    /\ [][PairHandling]_vars
    /\ [](\A b \in BOOLEAN, c \in BOOLEAN :
            /\ b # c => PairVerdict(b, c) = "fail"
            /\ (b /\ c) => PairVerdict(b, c) = "skip"
            /\ (~b /\ ~c) => PairVerdict(b, c) = "next")

C9_Witness ==
    /\ testKind = "QUANTIZATION_COUPLING"
    /\ pc = "end"
    /\ Len(invoked) = 12
    /\ invoked[11].member = "base" /\ invoked[12].member = "coupled"
    /\ invoked[11].config = invoked[12].config
    /\ ~baseSkipped /\ ~coupledSkipped

\* The validation checks of an observation, in the order they were made.
IsValidationTag(tag) == tag \in ValidationTags

ObservedValidation(o) == SelectSeq(o.checks, IsValidationTag)

\* The verdict of an invocation: a failure when any check failed, fatally or
\* not; else a skip when it took the skip path; else a pass.
Verdict(o) ==
    IF o.failures # {} THEN "failure"
    ELSE IF o.skipRegistered \/ o.skipped
              \/ o.exit \in {"GTEST_SKIP", "return316"} THEN "skip"
    ELSE "pass"

AllObserved == Len(observed) = Len(executorList)

AsyncResultsRead ==
    /\ testConfig.executor = "ASYNC"
    /\ epc \in {"executed", "done"}
    /\ executionStatus # "UNSET"

\* C11: in the asynchronous driver, however the calling thread and the
\* backend's completion signal interleave (the signal may fire before or
\* after execute_1_3 returns): the wait returns only once the signal has
\* fired; what is validated is what that signal delivered, which nothing
\* changes after it was delivered; and every submission is made with a
\* callback object of its own that has not been notified.
C11_AsyncOrdering ==
    /\ [](AsyncResultsRead =>
            /\ callback.created /\ callback.notified
            /\ executionStatus = callback.status
            /\ outputShapes = callback.outputShapes
            /\ timing = callback.timing)
    /\ [][(epc = "waiting" /\ epc' = "executed") => callback.notified]_vars
    /\ [][(callback.notified /\ epc' \in {"launching", "waiting", "executed", "done"})
            => callback' = callback]_vars
    /\ [][(epc = "built" /\ epc' = "launching")
            => /\ callback'.created /\ ~callback'.notified
               /\ callback'.status = "UNSET"
               /\ callback'.outputShapes = <<>>]_vars

\* A later asynchronous invocation of a run, whose launch returned an error
\* status, has waited and read the results its own signal delivered.
C11_Witness ==
    /\ AsyncResultsRead
    /\ epc = "executed"
    /\ cfgIdx >= 4
    /\ callback.notified
    /\ executionStatus = "OUTPUT_INSUFFICIENT_SIZE"
    /\ outputShapes # <<>>
    /\ Fail("launchStatus") \in failures

\* The most Evaluator invocations a run of a test kind makes.
MaxInvocations ==
    IF testKind = "QUANTIZATION_COUPLING"
    THEN 2 * Len(CoupledConfigs)
    ELSE Len(KindConfigs(testKind))

\* The asynchronous driver is in wait() and the signal has not fired.
BlockedInWait == epc = "waiting" /\ ~callback.notified

\* C12: with a backend that returns from every call and fires every
\* completion signal, every run of Execute ends, after at most the matrix's
\* number of Evaluator invocations. There is no way out of the wait but the
\* signal: while it has not fired the test thread has no step to take, and
\* the driver waits also after a launch that returned an error status over
\* a working transport.
C12_Termination ==
    /\ <>[](pc = "end" /\ epc = "idle")
    /\ [](Len(invoked) <= MaxInvocations)
    /\ [](BlockedInWait => ~ENABLED HarnessNext)
    /\ [][(BlockedInWait /\ ~callback'.notified) => BlockedInWait']_vars
    /\ [][(epc = "launching" /\ transport' = "ok") => epc' = "waiting"]_vars

\* A DYNAMIC_SHAPE run has ended after all its invocations, some of which
\* failed and some of which were skipped.
C12_Witness ==
    /\ pc = "end" /\ epc = "idle"
    /\ testKind = "DYNAMIC_SHAPE"
    /\ Len(invoked) = MaxInvocations
    /\ testFailed /\ testSkipped

\* The blocking driver has returned.
SyncReturned ==
    /\ testConfig.executor = "SYNC"
    /\ epc \in {"executed", "done"}
    /\ executionStatus # "UNSET"

\* C13: the status the blocking driver hands to the validation is
\* GENERAL_FAILURE whenever the transport of executeSynchronously_1_3 was not
\* OK, whatever the backend passed to the result callback, and is the status
\* the backend passed to the result callback when the transport was OK.
C13_SyncTransportFault ==
    SyncReturned =>
        /\ transport \in {"ok", "fault"}
        /\ transport = "fault" => executionStatus = "GENERAL_FAILURE"
        /\ transport = "ok" =>
            /\ executionStatus = callback.status
            /\ outputShapes = callback.outputShapes
            /\ timing = callback.timing

C13_Witness ==
    /\ SyncReturned
    /\ transport = "fault"
    /\ callback.status = "NONE"
    /\ executionStatus = "GENERAL_FAILURE"

\* C14: in a GENERAL or DYNAMIC_SHAPE test whose preparation gave a null
\* handle, the Evaluator is never invoked, no driver is called and no
\* failure is recorded; the test ends right after the one preparation.
C14_NullHandleEndsTest ==
    (testKind \in {"GENERAL", "DYNAMIC_SHAPE"} /\ preparedModel = "null")
    => /\ invoked = <<>>
       /\ epc = "idle"
       /\ driverCalls = 0
       /\ executionStatus = "UNSET"
       /\ ~testFailed
       /\ pc \in {"start", "prepare", "end"}
       /\ pc = "end" => Len(prepareCalls) = 1

C14_Witness ==
    /\ testKind = "DYNAMIC_SHAPE"
    /\ preparedModel = "null"
    /\ pc = "end"
    /\ Len(prepareCalls) = 1
    /\ invoked = <<>>

\* The byte length of output i after the k first recorded applications.
LengthAfter(k, i) ==
    IF k = 0 THEN observed[1].before.outputs[i] ELSE observed[k].after.outputs[i]

\* The helper was applied twice to the same output, whose length was valid
\* (more than 1) to begin with.
TwiceOnValidOutput ==
    /\ Len(observed) >= 2
    /\ observed[1].outputIndex = observed[2].outputIndex
    /\ LengthAfter(0, observed[1].outputIndex) > 1

\* C15 as stated: applying the helper twice to the same output of a valid
\* request leaves that output as long as applying it once.
C15_Idempotent ==
    TwiceOnValidOutput =>
        LengthAfter(2, observed[1].outputIndex) = LengthAfter(1, observed[1].outputIndex)

\* C15: every application to an output longer than 1 takes exactly one byte
\* off that output and records nothing; an application to an output of
\* length 0 or 1 fails its assertion and leaves the length. So applying the
\* helper twice to an output of length L > 2 leaves L - 2, and to an output
\* of length 2 leaves 1 with the second application failed.
C15_ShrinkDecrements ==
    /\ \A k \in 1..Len(observed) :
        LET i == observed[k].outputIndex
            before == observed[k].before.outputs[i]
            after == observed[k].after.outputs[i]
        IN  /\ before > 1 => (after = before - 1 /\ ~observed[k].failed)
            /\ before <= 1 => (after = before /\ observed[k].failed)
    /\ TwiceOnValidOutput =>
        LET i == observed[1].outputIndex
            L == LengthAfter(0, i)
        IN  /\ L > 2 => (LengthAfter(2, i) = L - 2 /\ ~observed[2].failed)
            /\ L = 2 => (LengthAfter(2, i) = 1 /\ observed[2].failed)
    /\ testFailed <=> \E k \in 1..Len(observed) : observed[k].failed

C15_Witness ==
    /\ TwiceOnValidOutput
    /\ LengthAfter(0, observed[1].outputIndex) = 3
    /\ LengthAfter(1, observed[1].outputIndex) = 2
    /\ LengthAfter(2, observed[1].outputIndex) = 1
    /\ ~testFailed

\* A request has been built in this invocation (and, once driverCalls is
\* not 0, submitted to the driver).
RequestBuilt == epc \in {"built", "launching", "waiting", "executed", "done"} /\ request.built

\* C16: the request the Evaluator builds, and submits, is under INSUFFICIENT
\* the freshly built one with output 0 one byte shorter and nothing else
\* changed (the other outputs, the inputs, the pools), and is the freshly
\* built one under the other two policies; the assertion of the helper never
\* fails in the Evaluator, the length it shrinks being the declared size of
\* output 0, more than 1, so what is left is at least 1.
C16_ShrinkFrame ==
    /\ Fail("shrinkPrecondition") \notin failures
    /\ driverCalls > 0 => RequestBuilt
    /\ RequestBuilt =>
        LET fresh == createRequest(evalModel)
        IN  IF testConfig.outputType = "INSUFFICIENT"
            THEN /\ Output0Size > 1
                 /\ fresh.outputs[1] = Output0Size
                 /\ request.outputs[1] = fresh.outputs[1] - 1
                 /\ request.outputs[1] >= 1
                 /\ Len(request.outputs) = Len(fresh.outputs)
                 /\ \A j \in 2..Len(fresh.outputs) : request.outputs[j] = fresh.outputs[j]
                 /\ request.inputs = fresh.inputs
                 /\ request.pools = fresh.pools
                 /\ request.built
            ELSE request = fresh

C16_Witness ==
    /\ RequestBuilt
    /\ driverCalls = 1
    /\ testConfig.outputType = "INSUFFICIENT"
    /\ NumOutputs = 2
    /\ request.outputs[1] = Output0Size - 1
    /\ request.outputs[2] = 2

\* ------------------------------------------------------------------- C17
\* The operand of the translated model at index i is an output of it.
ListedAsOutput(m, i) == \E j \in 1..Len(m.outputIndexes) : m.outputIndexes[j] = i

\* The model Execute holds differs from the translation of the test model
\* at most in the dimensions of its outputs, which have the same rank and
\* are all 0 when blanked and are untouched otherwise.
BlankedFrom(m, t, blanked) ==
    /\ Len(m.operands) = Len(t.operands)
    /\ \A i \in 1..Len(t.operands) :
        /\ m.operands[i].type = t.operands[i].type
        /\ m.operands[i].lifetime = t.operands[i].lifetime
        /\ m.operands[i].location = t.operands[i].location
        /\ Len(m.operands[i].dimensions) = Len(t.operands[i].dimensions)
        /\ \A d \in 1..Len(t.operands[i].dimensions) :
            m.operands[i].dimensions[d] =
                (IF blanked /\ ListedAsOutput(t, i) THEN 0
                 ELSE t.operands[i].dimensions[d])
    /\ m.operations = t.operations
    /\ m.operandValues = t.operandValues
    /\ m.pools = t.pools
    /\ m.inputIndexes = t.inputIndexes
    /\ m.outputIndexes = t.outputIndexes
    /\ m.relaxComputationFloat32toFloat16 = t.relaxComputationFloat32toFloat16

\* C17: blanking sets every dimension of every output operand to 0 and keeps
\* its rank; every other operand, the operations, the constant data and the
\* index lists stay as translated; blanking a second time changes nothing.
\* Execute blanks for DYNAMIC_SHAPE only, after the translation and before
\* the preparation, and never changes the test model.
C17_BlankOutputDimensions ==
    /\ [](pc = "start" => model = NoModel /\ prepareCalls = <<>>)
    /\ [](pc \notin {"start", "aborted"} =>
            /\ BlankedFrom(model, createModel(testModel), testKind = "DYNAMIC_SHAPE")
            /\ testKind # "DYNAMIC_SHAPE" => model = createModel(testModel)
            /\ makeOutputDimensionsUnspecified(makeOutputDimensionsUnspecified(model))
                   = makeOutputDimensionsUnspecified(model)
            /\ testKind = "DYNAMIC_SHAPE" => makeOutputDimensionsUnspecified(model) = model
            /\ \A c \in 1..Len(prepareCalls) : prepareCalls[c].model = model)
    /\ [][testModel' = testModel /\ (pc # "start" => model' = model)]_vars

\* A DYNAMIC_SHAPE test whose model has an output of rank 2, a constant
\* copy and a constant reference has submitted the blanked model.
C17_Witness ==
    /\ testKind = "DYNAMIC_SHAPE"
    /\ Len(prepareCalls) = 1
    /\ model.operandValues # <<>>
    /\ model.pools # <<>>
    /\ \E i \in 1..Len(model.operands) :
        /\ ListedAsOutput(model, i)
        /\ model.operands[i].dimensions = <<0, 0>>
        /\ testModel.operands[i].dimensions = <<2, 2>>

\* ------------------------------------------------------------------- C18
\* The data size of operand j rounded up to the boundary, if operand j has
\* the lifetime; 0 otherwise.
PaddedSizeIn(tm, lifetime, j) ==
    IF tm.operands[j].lifetime = lifetime
    THEN tm.operands[j].size
         + ((kAlignment - (tm.operands[j].size % kAlignment)) % kAlignment)
    ELSE 0

\* The padded sizes of the operands below index i that have the lifetime,
\* summed.
LowerTotal(tm, lifetime, i) ==
    SumOf([j \in 1..(i - 1) |-> PaddedSizeIn(tm, lifetime, j)])

IsConstant(tm, i) ==
    tm.operands[i].lifetime \in {"CONSTANT_COPY", "CONSTANT_REFERENCE"}

\* The buffer of a storage class in the translated model.
BufferOf(m, lifetime) ==
    IF lifetime = "CONSTANT_COPY" THEN m.operandValues
    ELSE IF m.pools = <<>> THEN <<>> ELSE m.pools[1]

\* C18: in the translated model the offset of a constant is the sum of the
\* aligned sizes of the lower-indexed constants of its own storage class
\* (the two classes do not affect each other), is a multiple of the
\* boundary, its length is the unpadded data size, its range lies inside
\* the buffer of its class, whose size is the class's total, and holds its
\* data, and ranges of distinct constants of one class do not overlap;
\* every other operand has the zero location.
C18_ConstantLayout ==
    pc \notin {"start", "aborted"} =>
        /\ Len(model.operandValues)
              = LowerTotal(testModel, "CONSTANT_COPY", Len(testModel.operands) + 1)
        /\ Len(BufferOf(model, "CONSTANT_REFERENCE"))
              = LowerTotal(testModel, "CONSTANT_REFERENCE", Len(testModel.operands) + 1)
        /\ \A i \in 1..Len(testModel.operands) :
            LET loc == model.operands[i].location
                lifetime == testModel.operands[i].lifetime
            IN  IF IsConstant(testModel, i)
                THEN /\ loc.poolIndex = 0
                     /\ loc.offset = LowerTotal(testModel, lifetime, i)
                     /\ loc.offset % kAlignment = 0
                     /\ loc.length = testModel.operands[i].size
                     /\ loc.offset + loc.length <= Len(BufferOf(model, lifetime))
                     /\ \A b \in (loc.offset + 1)..(loc.offset + loc.length) :
                            BufferOf(model, lifetime)[b] = i
                     /\ \A j \in 1..Len(testModel.operands) :
                            (j # i /\ testModel.operands[j].lifetime = lifetime) =>
                                LET other == model.operands[j].location
                                IN  \/ loc.offset + loc.length <= other.offset
                                    \/ other.offset + other.length <= loc.offset
                ELSE loc = [poolIndex |-> 0, offset |-> 0, length |-> 0]

\* A translated model whose second constant reference follows one of a
\* boundary and a byte: it starts two boundaries in and keeps its unpadded
\* length of one byte.
C18_Witness ==
    /\ pc = "prepare"
    /\ Len(testModel.operands) = MaxOperands
    /\ testModel.operands[1].lifetime = "CONSTANT_REFERENCE"
    /\ testModel.operands[1].size = kAlignment + 1
    /\ testModel.operands[2].lifetime = "CONSTANT_REFERENCE"
    /\ model.operands[2].location.offset = 2 * kAlignment
    /\ model.operands[2].location.length = 1

\* ------------------------------------------------------------------- C19
\* The total of the padded sizes of the constant references of the test.
ReferenceTotal == LowerTotal(testModel, "CONSTANT_REFERENCE", Len(testModel.operands) + 1)

\* The one memory obtained is unusable: empty, not mapped, or mapped
\* without a pointer.
MemoryUnusable ==
    \/ allocations[1].memory.size = 0
    \/ ~allocations[1].memory.mapped
    \/ ~allocations[1].memory.pointer

\* C19: the translation asks for shared memory exactly when the total of the
\* constant references is nonzero: once, for that total, and the model then
\* has one pool of that size; otherwise never, and the model has no pool.
\* When the memory obtained is empty or cannot be mapped the run ends there:
\* nothing is prepared, no Evaluator is invoked, nothing is executed, and
\* neither a skip nor a failure is recorded.
C19_PoolAllocation ==
    /\ [](pc = "start" => allocations = <<>>)
    /\ [](pc # "start" =>
            /\ ReferenceTotal = 0 =>
                  /\ allocations = <<>>
                  /\ pc # "aborted"
                  /\ model.pools = <<>>
            /\ ReferenceTotal > 0 =>
                  /\ Len(allocations) = 1
                  /\ allocations[1].requested = ReferenceTotal
                  /\ pc = "aborted" <=> MemoryUnusable
                  /\ pc # "aborted" =>
                        /\ Len(model.pools) = 1
                        /\ Len(model.pools[1]) = ReferenceTotal)
    /\ [](pc = "aborted" =>
            /\ model = NoModel
            /\ prepareCalls = <<>>
            /\ invoked = <<>>
            /\ epc = "idle"
            /\ driverCalls = 0
            /\ ~testSkipped /\ ~skipRegistered
            /\ ~testFailed /\ failures = {})
    /\ [][pc # "aborted"]_vars

\* The translation of a model with a constant reference has ended the run
\* on an empty memory.
C19_Witness ==
    /\ pc = "aborted"
    /\ Len(allocations) = 1
    /\ allocations[1].requested = 2 * kAlignment
    /\ allocations[1].memory.size = 0

\* ------------------------------------------------------------------- C20
\* The positions of an Evaluator invocation in the order it passes them:
\* started, request built, in the driver (submitted, waiting), driver
\* returned, finished.
EvaluatorOrder == <<"entry", "built", "launching", "waiting", "executed", "done">>

Position(p) == CHOOSE i \in 1..Len(EvaluatorOrder) : EvaluatorOrder[i] = p

ComparatorCalls == Cardinality({i \in 1..Len(checks) : checks[i] = "checkResults"})

\* The number of output shapes passes the check of the policy.
ShapeCountPasses ==
    IF testConfig.outputType = "FULLY_SPECIFIED"
    THEN Len(outputShapes) = 0 \/ Len(outputShapes) = NumOutputs
    ELSE Len(outputShapes) = NumOutputs

\* C20: an Evaluator invocation only moves forward through its positions.
\* Its driver is called at most once, and only with the request built; the
\* comparator is called at most once, only when a driver has returned a
\* status, and at the end of the invocation it has been called exactly when
\* the policy is FULLY_SPECIFIED or UNSPECIFIED, the status is NONE and the
\* number of shapes passed its check, whatever timing or per-output
\* mismatches were recorded.
C20_EvaluatorOrder ==
    /\ [][Position(epc') >= Position(epc)]_vars
    /\ [](driverCalls <= 1)
    /\ [][driverCalls' # driverCalls =>
            /\ epc = "built" /\ request.built /\ request' = request
            /\ driverCalls' = driverCalls + 1]_vars
    /\ [](epc \in {"entry", "built"} => driverCalls = 0 /\ checks = <<>>)
    /\ [](ComparatorCalls <= 1)
    /\ [](ComparatorCalls = 1 =>
            /\ epc = "done" /\ exit = "end"
            /\ driverCalls = 1
            /\ executionStatus # "UNSET")
    /\ [][ComparatorCalls' # ComparatorCalls => epc = "executed"]_vars
    /\ [](epc = "done" =>
            (ComparatorCalls = 1 <=>
                /\ testConfig.outputType \in {"FULLY_SPECIFIED", "UNSPECIFIED"}
                /\ executionStatus = "NONE"
                /\ ShapeCountPasses))
    /\ [](epc = "done" =>
            exit \in {"return245", "assert", "GTEST_SKIP", "return316", "return352", "end"})

\* The comparator has been called although a timing mismatch and, for
\* output 0, an insufficiency and a dimension mismatch are recorded.
C20_Witness ==
    /\ epc = "done"
    /\ ComparatorCalls = 1
    /\ failures \cap TimingTags # {}
    /\ FailAt("isSufficient", 1) \in failures
    /\ FailAt("dimensions", 1) \in failures

\* ------------------------------------------------------------------- C21
\* The test runs the coupling orchestrator: both models are prepared.
CouplingRun ==
    /\ testKind = "QUANTIZATION_COUPLING"
    /\ pc \in {"coupledBase", "coupledCoupled", "end"}
    /\ preparedModel # "null"
    /\ preparedCoupledModel # "null"

\* The number of pairs the coupling orchestrator evaluates: 6.
CoupledPairs == Len(ExpectedCoupledConfigs)

\* C21: an Evaluator invocation given a skipped indicator sets it to false
\* on entry and to true only after a status of GENERAL_FAILURE under a
\* policy other than FULLY_SPECIFIED. A coupling run evaluates under
\* FULLY_SPECIFIED only, so both of its indicators are false in every state:
\* the comparison of the two never fails, no skip is registered, every pair
\* is followed by the next until all CoupledPairs are evaluated, and a
\* GENERAL_FAILURE of a member is a failure of the status assertion of that
\* member, after which the run goes on with the other member or the next
\* pair.
C21_SkippedIndicator ==
    /\ [][(epc = "entry" /\ epc' # "entry" /\ hasSkipped) => ~skipped']_vars
    /\ [][(~skipped /\ skipped') =>
            /\ epc = "executed"
            /\ hasSkipped
            /\ testConfig.outputType # "FULLY_SPECIFIED"
            /\ executionStatus = "GENERAL_FAILURE"]_vars
    /\ []((hasSkipped /\ skipped /\ epc \notin {"idle", "entry"}) =>
            /\ epc = "done"
            /\ testConfig.outputType # "FULLY_SPECIFIED"
            /\ executionStatus = "GENERAL_FAILURE")
    /\ [](testKind = "QUANTIZATION_COUPLING" =>
            /\ ~baseSkipped /\ ~coupledSkipped /\ ~skipped
            /\ epc # "idle" =>
                  /\ hasSkipped
                  /\ testConfig.outputType = "FULLY_SPECIFIED"
                  /\ ~testConfig.reportSkipping)
    /\ [](CouplingRun =>
            /\ ~testSkipped /\ ~skipRegistered
            /\ pc = "end" => Len(invoked) = 2 * CoupledPairs)
    /\ [][(CouplingRun /\ pc = "coupledBase" /\ epc = "done") =>
            /\ pc' = "coupledCoupled"
            /\ Len(invoked') = Len(invoked) + 1
            /\ invoked'[Len(invoked')].member = "coupled"
            /\ testFailed' = testFailed]_vars
    /\ [][(CouplingRun /\ pc = "coupledCoupled" /\ epc = "done") =>
            /\ pc' = (IF Len(invoked) < 2 * CoupledPairs THEN "coupledBase" ELSE "end")
            /\ testFailed' = testFailed
            /\ testSkipped' = testSkipped]_vars
    /\ []((CouplingRun /\ epc = "done" /\ executionStatus = "GENERAL_FAILURE") =>
            /\ exit = "assert"
            /\ fatal = "status"
            /\ Fail("status") \in failures
            /\ testFailed)

\* In a coupling run the base model of the first pair has ended with
\* GENERAL_FAILURE and the coupled model of that pair has now ended with
\* GENERAL_FAILURE as well.
C21_Witness ==
    /\ CouplingRun
    /\ pc = "coupledCoupled"
    /\ Len(invoked) = 2
    /\ epc = "done"
    /\ executionStatus = "GENERAL_FAILURE"
    /\ testFailed
    /\ ~skipped /\ ~baseSkipped

\* ------------------------------------------------------------------- C22
\* The blocking driver's call did not get through to the backend.
SyncFault == testConfig.executor = "SYNC" /\ transport = "fault"

\* C22: a transport fault of the blocking driver never ends the Evaluator
\* before the status is classified: the driver returns GENERAL_FAILURE with
\* no failure recorded. What follows is what follows a GENERAL_FAILURE the
\* backend reported, and is decided by the policy alone: under UNSPECIFIED
\* and INSUFFICIENT the invocation ends as skipped, under FULLY_SPECIFIED
\* with a failure of the status assertion.
C22_SyncFaultVerdict ==
    /\ [][(testConfig.executor = "SYNC" /\ epc = "built") =>
            /\ epc' = "executed"
            /\ fatal' = "none" /\ failures' = {} /\ testFailed' = testFailed
            /\ exit' = "none"
            /\ transport' = "fault" => executionStatus' = "GENERAL_FAILURE"]_vars
    /\ [](SyncFault => /\ epc \in {"executed", "done"}
                       /\ executionStatus = "GENERAL_FAILURE")
    /\ []((testConfig.executor = "SYNC" /\ epc = "done"
                /\ executionStatus = "GENERAL_FAILURE") =>
            /\ testConfig.outputType \in {"UNSPECIFIED", "INSUFFICIENT"} =>
                  /\ exit \in {"GTEST_SKIP", "return316"}
                  /\ exit = "GTEST_SKIP" <=> testConfig.reportSkipping
                  /\ hasSkipped => skipped
                  /\ fatal = "none" /\ failures = {} /\ ~testFailed
                  /\ ValidationChecks = {}
            /\ testConfig.outputType = "FULLY_SPECIFIED" =>
                  /\ exit = "assert"
                  /\ fatal = "status"
                  /\ Fail("status") \in failures
                  /\ testFailed
                  /\ ~skipped /\ ~skipRegistered /\ ~testSkipped
                  /\ ComparatorCalls = 0)

\* Under FULLY_SPECIFIED the blocking driver's call has failed in transport
\* although the backend had passed NONE to the result callback, and the
\* invocation has ended on the status assertion.
C22_Witness ==
    /\ SyncFault
    /\ epc = "done"
    /\ testConfig.outputType = "FULLY_SPECIFIED"
    /\ callback.status = "NONE"
    /\ exit = "assert"
    /\ fatal = "status"

=============================================================================
